---- MODULE Spec2Model ----
(***************************************************************************)
(* ZKBoo with the (2,3)-decomposition: the prover (src/src/prover.rs), the *)
(* verifier (src/src/verifier.rs) and the collaborators they drive (word   *)
(* algebra, tape, view, party, commitment, Fiat-Shamir oracle, key         *)
(* manager, circuit), as one state machine.                                *)
(*                                                                         *)
(* Code indices are 0-based; sequences here are 1-based, so At(s, i) reads *)
(* element i of the code's vector s.                                       *)
(***************************************************************************)
EXTENDS Integers, Sequences, FiniteSets, TLC

\* ------------------------------------------------------------------ bounds

\* Width, in bits, of a word (and of an input byte).
WordBits == 1
\* Keys are drawn from 0..MaxKey.
MaxKey == 2
\* The injected RNG starts from a seed in 0..MaxSeed.
MaxSeed == 2
\* The soundness parameter SIGMA ranges over 1..MaxSigma.
MaxSigma == 2
\* share is run on inputs of 0..MaxInputLen bytes.
MaxInputLen == 2
\* A repetition taken on its own draws its keys from 0..MaxRepKey.
MaxRepKey == 3
MaxByte == 4
MaxBytesLen == 4
MaxWords == 3

\* ------------------------------------------------------------ word algebra

RECURSIVE Pow2(_)
Pow2(n) == IF n = 0 THEN 1 ELSE 2 * Pow2(n - 1)

Words == 0 .. (Pow2(WordBits) - 1)

RECURSIVE XorBits(_, _, _)
XorBits(a, b, n) ==
  IF n = 0 THEN 0
  ELSE (((a % 2) + (b % 2)) % 2) + 2 * XorBits(a \div 2, b \div 2, n - 1)

RECURSIVE AndBits(_, _, _)
AndBits(a, b, n) ==
  IF n = 0 THEN 0
  ELSE ((a % 2) * (b % 2)) + 2 * AndBits(a \div 2, b \div 2, n - 1)

\* GF2Word ^ GF2Word
Xor(a, b) == XorBits(a, b, WordBits)
\* GF2Word & GF2Word
And(a, b) == AndBits(a, b, WordBits)

At(s, i) == s[i + 1]

\* Elementwise XOR of two word vectors of the same length.
XorVec(a, b) == [i \in 1 .. Len(a) |-> Xor(a[i], b[i])]

RECURSIVE SeqsOf(_, _)
SeqsOf(S, n) ==
  IF n = 0 THEN {<<>>}
  ELSE {Append(s, x) : s \in SeqsOf(S, n - 1), x \in S}

\* ---------------------------------------------------------------- circuits

\* A circuit is a straight-line program over wires: wires 0..nin-1 hold the
\* input words, every gate appends one wire, outs lists the output wires.
Gate(op, a, b) == [op |-> op, a |-> a, b |-> b]

IdentityCircuit ==
  [nin |-> 2, gates |-> <<>>, outs |-> <<0, 1>>]
XorChainCircuit ==
  [nin |-> 2, gates |-> <<Gate("xorc", 0, 1), Gate("xor", 2, 1)>>, outs |-> <<3, 2>>]
AndCircuit ==
  [nin |-> 2, gates |-> <<Gate("and", 0, 1)>>, outs |-> <<2>>]
AndXorAndCircuit ==
  [nin |-> 2,
   gates |-> <<Gate("and", 0, 1), Gate("xor", 2, 0), Gate("and", 3, 1)>>,
   outs |-> <<4, 2>>]

Circuits == {IdentityCircuit, XorChainCircuit, AndCircuit, AndXorAndCircuit}

num_of_mul_gates(c) == Cardinality({g \in 1 .. Len(c.gates) : c.gates[g].op = "and"})
party_output_len(c) == Len(c.outs)

\* The plaintext circuit: the wire values after the first n gates.
RECURSIVE PlainWires(_, _, _)
PlainWires(c, w, n) ==
  IF n = 0 THEN w
  ELSE LET ws == PlainWires(c, w, n - 1)
           g  == c.gates[n]
       IN  Append(ws,
             CASE g.op = "xor"  -> Xor(At(ws, g.a), At(ws, g.b))
               [] g.op = "xorc" -> Xor(At(ws, g.a), g.b)
               [] g.op = "and"  -> And(At(ws, g.a), At(ws, g.b)))

\* C(w)
Eval(c, w) ==
  LET ws == PlainWires(c, w, Len(c.gates))
  IN  [i \in 1 .. Len(c.outs) |-> At(ws, c.outs[i])]

\* ------------------------------------------------------- injected randomness

\* The caller's RNG is the stream of raw values it will return, in order.
\* A seeded generator: its state moves by NextRng and is the value returned.
NextRng(s) == (s * 17 + 7) % 61

RECURSIVE RngStream(_, _)
RngStream(seed, n) ==
  IF n = 0 THEN <<>>
  ELSE <<NextRng(seed)>> \o RngStream(NextRng(seed), n - 1)

\* u8::gen_rand(rng) reduces a raw value to a word, key generation to a key.
RandWord(raw) == raw % Pow2(WordBits)
RandKey(raw) == raw % (MaxKey + 1)

\* n consecutive draws: the values and the RNG after them.
DrawWords(rng, n) ==
  [vals |-> [i \in 1 .. n |-> RandWord(rng[i])],
   rng  |-> SubSeq(rng, n + 1, Len(rng))]

DrawKeys(rng, n) ==
  [vals |-> [i \in 1 .. n |-> RandKey(rng[i])],
   rng  |-> SubSeq(rng, n + 1, Len(rng))]

\* ------------------------------------------------------ keys, tapes, views

Keys == 0 .. MaxKey

\* KeyManager::new(n, rng): 3n keys drawn up front; request_key hands them
\* out in order, request_key_i(i) reads key i.
KeyManagerNew(n, rng) ==
  LET d == DrawKeys(rng, 3 * n)
  IN  [km |-> [keys |-> d.vals, next |-> 0], rng |-> d.rng]

request_key_i(km, i) == At(km.keys, i)

\* Tape::from_key(key, len): word i of the tape is a pure function of the key.
TapeWord(key, i) == (key \div Pow2(i * WordBits)) % Pow2(WordBits)
TapeFromKey(key, len) == [i \in 1 .. len |-> TapeWord(key, i - 1)]

\* View: the input share and the messages, one per AND gate.
NewView(input) == [input |-> input, messages |-> <<>>]
DefaultView == [input |-> <<>>, messages |-> <<>>]

\* Party::from_tape_and_view(view, tape): tape cursor and view cursor at 0.
PartyFromTapeAndView(view, tape) ==
  [view |-> view, tape |-> tape, tape_pos |-> 0, view_pos |-> 0]

\* Party::new(share, key, tape_len)
PartyNew(share, key, tape_len) ==
  PartyFromTapeAndView(NewView(share), TapeFromKey(key, tape_len))

\* Commitment::commit over PartyExecution {key, view}: a collision-free hash
\* of key, input share and messages; delta is the XOR distance of the digest
\* bytes from that hash (0 for a digest as computed).
Commit(key, view) ==
  [key |-> key, input |-> view.input, messages |-> view.messages, delta |-> 0]

\* ---------------------------------------------------- (2,3)-decomposition

\* One party's share of an AND gate: z_i from its own shares and tape word and
\* those of the next party.
MpcAnd(a, b, a_next, b_next, r, r_next) ==
  Xor(Xor(Xor(Xor(And(a, b), And(a_next, b)), And(a, b_next)), r), r_next)

LocalGate(g, ws) ==
  IF g.op = "xor" THEN Xor(At(ws, g.a), At(ws, g.b)) ELSE Xor(At(ws, g.a), g.b)

\* The state of a three-party run before any gate: parties and their wires.
Start23(p1, p2, p3) ==
  [parties |-> <<p1, p2, p3>>,
   wires   |-> <<p1.view.input, p2.view.input, p3.view.input>>]

\* Gate g evaluated with the messages written but no tape cursor advanced.
Step23KeepsCursor(g, st) ==
  LET nx(i) == (i % 3) + 1
      z(i) ==
        IF g.op = "and"
        THEN MpcAnd(At(st.wires[i], g.a), At(st.wires[i], g.b),
                    At(st.wires[nx(i)], g.a), At(st.wires[nx(i)], g.b),
                    At(st.parties[i].tape, st.parties[i].tape_pos),
                    At(st.parties[nx(i)].tape, st.parties[nx(i)].tape_pos))
        ELSE LocalGate(g, st.wires[i])
      after(i) ==
        IF g.op = "and"
        THEN [st.parties[i] EXCEPT !.view.messages = Append(@, z(i))]
        ELSE st.parties[i]
  IN  [parties |-> <<after(1), after(2), after(3)>>,
       wires   |-> <<Append(st.wires[1], z(1)),
                     Append(st.wires[2], z(2)),
                     Append(st.wires[3], z(3))>>]

\* Gate g evaluated by the three parties.
Step23(g, st) ==
  LET nx(i) == (i % 3) + 1
      z(i) ==
        IF g.op = "and"
        THEN MpcAnd(At(st.wires[i], g.a), At(st.wires[i], g.b),
                    At(st.wires[nx(i)], g.a), At(st.wires[nx(i)], g.b),
                    At(st.parties[i].tape, st.parties[i].tape_pos),
                    At(st.parties[nx(i)].tape, st.parties[nx(i)].tape_pos))
        ELSE LocalGate(g, st.wires[i])
      after(i) ==
        IF g.op = "and"
        THEN [st.parties[i] EXCEPT
                !.view.messages = Append(@, z(i)),
                !.tape_pos = @ + 1]
        ELSE st.parties[i]
  IN  [parties |-> <<after(1), after(2), after(3)>>,
       wires   |-> <<Append(st.wires[1], z(1)),
                     Append(st.wires[2], z(2)),
                     Append(st.wires[3], z(3))>>]

RECURSIVE Run23(_, _, _)
Run23(c, st, n) ==
  IF n = 0 THEN st ELSE Step23(c.gates[n], Run23(c, st, n - 1))

OutputsOf(c, ws) == [i \in 1 .. Len(c.outs) |-> At(ws, c.outs[i])]

\* Circuit::compute_23_decomposition(p1, p2, p3): the three output shares and
\* the three parties as the run leaves them.
compute_23_decomposition(c, p1, p2, p3) ==
  LET st == Run23(c, Start23(p1, p2, p3), Len(c.gates))
  IN  [outputs |-> <<OutputsOf(c, st.wires[1]), OutputsOf(c, st.wires[2]),
                     OutputsOf(c, st.wires[3])>>,
       parties |-> st.parties]

\* The state of a two-party re-simulation before any gate.
Start2(p, p_next) ==
  [p |-> p, p_next |-> p_next,
   wires |-> p.view.input, wires_next |-> p_next.view.input, err |-> FALSE]

\* Gate g re-simulated: p computes its message, p_next replays its view.
Step2(g, st) ==
  IF st.err THEN st
  ELSE IF g.op # "and"
  THEN [st EXCEPT !.wires = Append(@, LocalGate(g, st.wires)),
                  !.wires_next = Append(@, LocalGate(g, st.wires_next))]
  ELSE IF st.p_next.view_pos >= Len(st.p_next.view.messages)
  THEN [st EXCEPT !.err = TRUE]
  ELSE LET z == MpcAnd(At(st.wires, g.a), At(st.wires, g.b),
                       At(st.wires_next, g.a), At(st.wires_next, g.b),
                       At(st.p.tape, st.p.tape_pos),
                       At(st.p_next.tape, st.p_next.tape_pos))
           z_next == At(st.p_next.view.messages, st.p_next.view_pos)
       IN  [st EXCEPT !.p.view.messages = Append(@, z),
                      !.p.tape_pos = @ + 1,
                      !.p_next.view_pos = @ + 1,
                      !.p_next.tape_pos = @ + 1,
                      !.wires = Append(@, z),
                      !.wires_next = Append(@, z_next)]

RECURSIVE Run2(_, _, _)
Run2(c, st, n) ==
  IF n = 0 THEN st ELSE Step2(c.gates[n], Run2(c, st, n - 1))

\* Circuit::simulate_two_parties(p, p_next): Err(OutputReconstructionError)
\* when the replayed view runs short or holds more messages than AND gates;
\* else the two output shares, and p with the view it rebuilt.
simulate_two_parties(c, p, p_next) ==
  LET st == Run2(c, Start2(p, p_next), Len(c.gates))
      bad == st.err \/ st.p_next.view_pos # Len(st.p_next.view.messages)
  IN  IF bad
      THEN [err |-> TRUE, o0 |-> <<>>, o1 |-> <<>>, p |-> st.p]
      ELSE [err |-> FALSE,
            o0 |-> OutputsOf(c, st.wires),
            o1 |-> OutputsOf(c, st.wires_next),
            p |-> st.p]

\* ------------------------------------------------------------------ prover

\* num_of_repetitions_given_desired_security(SIGMA) = ceil(SIGMA / log2(3)):
\* the least r with 3^r >= 2^SIGMA.
RECURSIVE Pow3(_)
Pow3(n) == IF n = 0 THEN 1 ELSE 3 * Pow3(n - 1)

RECURSIVE LeastRepetitions(_, _)
LeastRepetitions(sg, r) ==
  IF Pow3(r) >= Pow2(sg) THEN r ELSE LeastRepetitions(sg, r + 1)

num_of_repetitions_given_desired_security(sg) == LeastRepetitions(sg, 0)

\* share with a third share that leaves share_2 out.
share_without_share_2(rng, input) ==
  LET d1 == DrawWords(rng, Len(input))
      d2 == DrawWords(d1.rng, Len(input))
      share_3 == [i \in 1 .. Len(input) |-> Xor(input[i], d1.vals[i])]
  IN  [shares |-> <<d1.vals, d2.vals, share_3>>, rng |-> d2.rng]

\* Prover::share(rng, input); InteractiveProver::share is the same code.
share(rng, input) ==
  LET d1 == DrawWords(rng, Len(input))
      d2 == DrawWords(d1.rng, Len(input))
      share_3 == [i \in 1 .. Len(input) |->
                    Xor(Xor(input[i], d1.vals[i]), d2.vals[i])]
  IN  [shares |-> <<d1.vals, d2.vals, share_3>>, rng |-> d2.rng]

\* init_parties handing share_2 to the third party as well.
init_parties_share_2_twice(rng, input, keys, tape_len) ==
  LET sh == share(rng, input)
  IN  [parties |-> <<PartyNew(sh.shares[1], keys[1], tape_len),
                     PartyNew(sh.shares[2], keys[2], tape_len),
                     PartyNew(sh.shares[2], keys[3], tape_len)>>,
       rng |-> sh.rng]

\* Prover::init_parties(rng, input, keys, tape_len)
init_parties(rng, input, keys, tape_len) ==
  LET sh == share(rng, input)
  IN  [parties |-> <<PartyNew(sh.shares[1], keys[1], tape_len),
                     PartyNew(sh.shares[2], keys[2], tape_len),
                     PartyNew(sh.shares[3], keys[3], tape_len)>>,
       rng |-> sh.rng]

\* Prover::prove_repetition(rng, input, keys, circuit)
prove_repetition(rng, input, keys, c) ==
  LET ip  == init_parties(rng, input, keys, num_of_mul_gates(c))
      run == compute_23_decomposition(c, ip.parties[1], ip.parties[2], ip.parties[3])
  IN  [party_outputs |-> run.outputs,
       party_views   |-> <<run.parties[1].view, run.parties[2].view,
                           run.parties[3].view>>,
       parties       |-> run.parties,
       rng           |-> ip.rng]

\* Prover::prove, the repetition loop: the state after n repetitions.
RECURSIVE CommitPhase(_, _, _, _, _)
CommitPhase(rng, km, witness, c, n) ==
  IF n = 0
  THEN [rng |-> rng, key_manager |-> km, outputs |-> <<>>,
        all_commitments |-> <<>>, all_views |-> <<>>]
  ELSE LET st == CommitPhase(rng, km, witness, c, n - 1)
           k  == <<At(st.key_manager.keys, st.key_manager.next),
                   At(st.key_manager.keys, st.key_manager.next + 1),
                   At(st.key_manager.keys, st.key_manager.next + 2)>>
           ro == prove_repetition(st.rng, witness, k, c)
       IN  [rng |-> ro.rng,
            key_manager |-> [st.key_manager EXCEPT !.next = @ + 3],
            outputs |-> st.outputs \o ro.party_outputs,
            all_views |-> st.all_views \o ro.party_views,
            all_commitments |->
              st.all_commitments
                \o <<Commit(k[1], ro.party_views[1]), Commit(k[2], ro.party_views[2]),
                     Commit(k[3], ro.party_views[3])>>]

\* Commitment::default(), what std::mem::take leaves behind.
DefaultCommitment == [key |-> -1, input |-> <<>>, messages |-> <<>>, delta |-> 0]

\* The three flat indices the opening loop uses at one repetition.
OpenI0(repetition, party_index) == repetition * 3 + party_index
\* i1 without the repetition offset.
OpenI1NoBlock(repetition, party_index) == (party_index + 1) % 3

OpenI1(repetition, party_index) == repetition * 3 + ((party_index + 1) % 3)
OpenI2(repetition, party_index) == repetition * 3 + ((party_index + 2) % 3)

\* The two keys the opening loop pushes at one repetition.
\* The key pushes with the second one left out.
OpenedKeysOnlyFirst(km, repetition, party_index) ==
  <<request_key_i(km, repetition * 3 + party_index)>>

\* The key pushes with the closed party's key in place of the next party's.
OpenedKeysHidden(km, repetition, party_index) ==
  <<request_key_i(km, repetition * 3 + party_index),
    request_key_i(km, repetition * 3 + ((party_index + 2) % 3))>>

OpenedKeys(km, repetition, party_index) ==
  <<request_key_i(km, OpenI0(repetition, party_index)),
    request_key_i(km, OpenI1(repetition, party_index))>>

EmptyProof ==
  [party_inputs |-> <<>>, commitments |-> <<>>, views |-> <<>>,
   keys |-> <<>>, claimed_trits |-> <<>>]

\* The opening loop of Prover::prove and InteractiveProver::round3 over the
\* first n opening indices: the proof so far and what is left in the lists.
RECURSIVE OpenPhase(_, _, _, _, _)
OpenPhase(all_views, all_commitments, km, opening_indices, n) ==
  IF n = 0
  THEN [all_views |-> all_views, all_commitments |-> all_commitments,
        proof |-> EmptyProof]
  ELSE LET st == OpenPhase(all_views, all_commitments, km, opening_indices, n - 1)
           party_index == opening_indices[n]
           i0 == OpenI0(n - 1, party_index)
           i1 == OpenI1(n - 1, party_index)
           i2 == OpenI2(n - 1, party_index)
           views1 == [st.all_views EXCEPT ![i0 + 1].input = <<>>]
           views2 == [views1 EXCEPT ![i1 + 1] = DefaultView]
       IN  [all_views |-> views2,
            all_commitments |->
              [st.all_commitments EXCEPT ![i2 + 1] = DefaultCommitment],
            proof |->
              [party_inputs  |-> Append(st.proof.party_inputs, At(st.all_views, i0).input),
               claimed_trits |-> Append(st.proof.claimed_trits, party_index),
               views         |-> Append(st.proof.views, At(views1, i1)),
               keys          |-> st.proof.keys \o OpenedKeys(km, n - 1, party_index),
               commitments   |-> Append(st.proof.commitments, At(st.all_commitments, i2))]]

\* ------------------------------------------------------- Fiat-Shamir oracle

HASH_LEN == "HASH_LEN"

Trits == 0 .. 2

\* The oracle input without digest_prover_message.
FsQueryNoCommitments(outputs, y, sg, all_commitments) ==
  [seed |-> <<0>>,
   pi |-> [outputs |-> outputs, public_output |-> y,
           hash_len |-> HASH_LEN, security_param |-> sg],
   commitments |-> <<>>]

\* What SigmaFS has absorbed when it samples: the seed byte, the public
\* input (digest_public_data) and the commitments (digest_prover_message).
FsQuery(outputs, y, sg, all_commitments) ==
  [seed |-> <<0>>,
   pi |-> [outputs |-> outputs, public_output |-> y,
           hash_len |-> HASH_LEN, security_param |-> sg],
   commitments |-> all_commitments]

\* The calls on SigmaFS with sample_trits made before digest_prover_message.
FsStepsSampleEarly(by, outputs, y, sg, all_commitments, n) ==
  <<[by |-> by, op |-> "initialize", arg |-> <<0>>],
    [by |-> by, op |-> "digest_public_data",
     arg |-> [outputs |-> outputs, public_output |-> y,
              hash_len |-> HASH_LEN, security_param |-> sg]],
    [by |-> by, op |-> "sample_trits", arg |-> n],
    [by |-> by, op |-> "digest_prover_message", arg |-> all_commitments]>>

\* The calls one run makes on its SigmaFS, in the order of the code:
\* initialize(&[0u8]), digest_public_data(&pi), digest_prover_message(
\* &all_commitments), sample_trits(num_of_repetitions).
FsSteps(by, outputs, y, sg, all_commitments, n) ==
  <<[by |-> by, op |-> "initialize", arg |-> <<0>>],
    [by |-> by, op |-> "digest_public_data",
     arg |-> [outputs |-> outputs, public_output |-> y,
              hash_len |-> HASH_LEN, security_param |-> sg]],
    [by |-> by, op |-> "digest_prover_message", arg |-> all_commitments],
    [by |-> by, op |-> "sample_trits", arg |-> n]>>

\* sample_trits(n): the oracle is a function of what it absorbed, so a query
\* answered before gets the same trits; a new query may get any n trits.
OracleAnswers(orc, q, n) ==
  IF \E e \in orc : e.q = q
  THEN {e.a : e \in {x \in orc : x.q = q}}
  ELSE SeqsOf(Trits, n)

\* ---------------------------------------------------------------- verifier

\* derive_third_output that leaves the public output out of the XOR.
derive_third_output_without_y(y, c, o1, o2) ==
  LET n == party_output_len(c)
  IN  IF Len(o1) # n \/ Len(o2) # n \/ Len(y) < n
      THEN [panic |-> TRUE, out |-> <<>>]
      ELSE [panic |-> FALSE, out |-> [i \in 1 .. n |-> Xor(o1[i], o2[i])]]

\* derive_third_output that leaves the second simulated output out of the XOR.
derive_third_output_without_o2(y, c, o1, o2) ==
  LET n == party_output_len(c)
  IN  IF Len(o1) # n \/ Len(o2) # n \/ Len(y) < n
      THEN [panic |-> TRUE, out |-> <<>>]
      ELSE [panic |-> FALSE, out |-> [i \in 1 .. n |-> Xor(o1[i], y[i])]]

\* Verifier::derive_third_output(public_output, circuit, (o1, o2))
derive_third_output(y, c, o1, o2) ==
  LET n == party_output_len(c)
  IN  IF Len(o1) # n \/ Len(o2) # n \/ Len(y) < n
      THEN [panic |-> TRUE, out |-> <<>>]
      ELSE [panic |-> FALSE,
            out |-> [i \in 1 .. n |-> Xor(Xor(o1[i], o2[i]), y[i])]]

\* The shape assertions with the one on keys letting longer vectors pass.
ShapeOkLongerKeys(pf, n) ==
  /\ Len(pf.party_inputs) = n
  /\ Len(pf.commitments) = n
  /\ Len(pf.views) = n
  /\ Len(pf.claimed_trits) = n
  /\ Len(pf.keys) >= 2 * n

\* The five shape assertions of Verifier::verify.
ShapeOk(pf, n) ==
  /\ Len(pf.party_inputs) = n
  /\ Len(pf.commitments) = n
  /\ Len(pf.views) = n
  /\ Len(pf.claimed_trits) = n
  /\ Len(pf.keys) = 2 * n

\* No rotation: the arm for 0 taken for every trit.
RotateNever(party_index, x0, x1, x2) == <<x0, x1, x2>>

\* The rotation with the arms for 1 and 2 exchanged.
RotateSwapped(party_index, x0, x1, x2) ==
  CASE party_index = 0 -> <<x0, x1, x2>>
    [] party_index = 1 -> <<x1, x2, x0>>
    [] party_index = 2 -> <<x2, x0, x1>>

\* The three slots of one repetition, rotated by the claimed trit.
Rotate(party_index, x0, x1, x2) ==
  CASE party_index = 0 -> <<x0, x1, x2>>
    [] party_index = 1 -> <<x2, x0, x1>>
    [] party_index = 2 -> <<x1, x2, x0>>

\* k_i0 read from the slot of k_i1.
VerifierKeyI0NextKey(pf, repetition) == At(pf.keys, 2 * repetition + 1)

\* k_i0 and k_i1: the keys the verifier takes for the opened party and the
\* next one.
VerifierKeyI0(pf, repetition) == At(pf.keys, 2 * repetition)

\* k_i1 read from the slot of k_i0.
VerifierKeyI1SameKey(pf, repetition) == At(pf.keys, 2 * repetition)

VerifierKeyI1(pf, repetition) == At(pf.keys, 2 * repetition + 1)

\* cm_i2 with its digest bytes restored to the hash as computed.
ClosedCommitmentAsComputed(pf, repetition) ==
  [At(pf.commitments, repetition) EXCEPT !.delta = 0]

\* cm_i2: the commitment of the party that stays closed, as the proof has it.
ClosedCommitment(pf, repetition) == At(pf.commitments, repetition)

\* The loop body with the last arm of the match folded onto the three trit
\* arms instead of panicking.
VerifyRepetitionAnyTrit(pf, c, y, repetition) ==
  LET party_index == At(pf.claimed_trits, repetition)
      k_i0    == VerifierKeyI0(pf, repetition)
      p       == PartyNew(At(pf.party_inputs, repetition), k_i0, num_of_mul_gates(c))
      k_i1    == VerifierKeyI1(pf, repetition)
      view_i1 == At(pf.views, repetition)
      tape_i1 == TapeFromKey(k_i1, num_of_mul_gates(c))
      p_next  == PartyFromTapeAndView(view_i1, tape_i1)
      sim     == simulate_two_parties(c, p, p_next)
      o2      == derive_third_output(y, c, sim.o0, sim.o1)
      cm_i0   == Commit(k_i0, sim.p.view)
      cm_i1   == Commit(k_i1, view_i1)
      cm_i2   == ClosedCommitment(pf, repetition)
      none    == [cms |-> <<>>, outs |-> <<>>, view_i0 |-> sim.p.view]
  IN  IF sim.err THEN [status |-> "OutputReconstructionError"] @@ none
      ELSE IF o2.panic THEN [status |-> "panic"] @@ none
      ELSE [status |-> "ok",
            cms  |-> Rotate(party_index % 3, cm_i0, cm_i1, cm_i2),
            outs |-> Rotate(party_index % 3, sim.o0, sim.o1, o2.out),
            view_i0 |-> sim.p.view]

\* One pass of the verifier's loop body for one repetition: how it ends
\* ("ok", an error, or "panic") and what it pushes.
VerifyRepetition(pf, c, y, repetition) ==
  LET party_index == At(pf.claimed_trits, repetition)
      k_i0    == VerifierKeyI0(pf, repetition)
      p       == PartyNew(At(pf.party_inputs, repetition), k_i0, num_of_mul_gates(c))
      k_i1    == VerifierKeyI1(pf, repetition)
      view_i1 == At(pf.views, repetition)
      tape_i1 == TapeFromKey(k_i1, num_of_mul_gates(c))
      p_next  == PartyFromTapeAndView(view_i1, tape_i1)
      sim     == simulate_two_parties(c, p, p_next)
      o2      == derive_third_output(y, c, sim.o0, sim.o1)
      cm_i0   == Commit(k_i0, sim.p.view)
      cm_i1   == Commit(k_i1, view_i1)
      cm_i2   == ClosedCommitment(pf, repetition)
      none    == [cms |-> <<>>, outs |-> <<>>, view_i0 |-> sim.p.view]
  IN  IF sim.err THEN [status |-> "OutputReconstructionError"] @@ none
      ELSE IF o2.panic THEN [status |-> "panic"] @@ none
      ELSE IF party_index \notin Trits THEN [status |-> "panic"] @@ none
      ELSE [status |-> "ok",
            cms  |-> Rotate(party_index, cm_i0, cm_i1, cm_i2),
            outs |-> Rotate(party_index, sim.o0, sim.o1, o2.out),
            view_i0 |-> sim.p.view]

\* The verifier's loop over the first n claimed trits: it stops at the first
\* repetition that does not end "ok".
RECURSIVE VerifyLoop(_, _, _, _)
VerifyLoop(pf, c, y, n) ==
  IF n = 0
  THEN [status |-> "ok", all_commitments |-> <<>>, outputs |-> <<>>,
        views_i0 |-> <<>>, done |-> 0]
  ELSE LET st == VerifyLoop(pf, c, y, n - 1)
       IN  IF st.status # "ok" THEN st
           ELSE LET r == VerifyRepetition(pf, c, y, n - 1)
                IN  [status |-> r.status,
                     all_commitments |-> st.all_commitments \o r.cms,
                     outputs |-> st.outputs \o r.outs,
                     views_i0 |-> Append(st.views_i0, r.view_i0),
                     done |-> IF r.status = "ok" THEN n ELSE st.done]

\* ----------------------------------------------------------- state machine

VARIABLES
  sigma,          \* SIGMA, the soundness parameter of this run
  circuit,        \* the public circuit
  witness,        \* the prover's secret input bytes
  public_output,  \* the public output handed to the prover
  rng,            \* the RNG handed to the prover
  pc,             \* where the run stands
  prover,         \* the locals of Prover::prove as it returns
  proof,          \* the proof in flight between prover and verifier
  tampered,       \* which field of the proof was changed on the way
  oracle,         \* the queries the Fiat-Shamir oracle has answered
  verifier,       \* the locals of Verifier::verify as it returns
  iprover,        \* the fields of the InteractiveProver
  first_message,  \* FirstMessageA as round1 returned it
  challenge,      \* the opening indices handed to round3
  again,          \* a second call of prove on the same arguments
  iverifier,      \* the InteractiveVerifier: its fields and how verify returned
  fs_log,         \* the calls made on Fiat-Shamir oracles, in order
  lab             \* one call of share, or one repetition, taken on its own

vars == <<sigma, circuit, witness, public_output, rng, pc, prover, proof,
          tampered, oracle, verifier, iprover, first_message, challenge,
          again, iverifier, fs_log, lab>>

interactive == <<iprover, first_message, challenge>>

extras == <<again, iverifier, fs_log>>

Sigmas == 1 .. MaxSigma

\* The largest repetition count of a run, and the draws a run may make.
MaxRepetitions == num_of_repetitions_given_desired_security(MaxSigma)
RngLen == 3 * MaxRepetitions + 4 * MaxRepetitions

NoProver ==
  [key_manager |-> [keys |-> <<>>, next |-> 0], outputs |-> <<>>,
   all_commitments |-> <<>>, all_views |-> <<>>, opening_indices |-> <<>>,
   left_views |-> <<>>, left_commitments |-> <<>>]

NoVerifier ==
  [public_output |-> <<>>, status |-> "none", outputs |-> <<>>,
   all_commitments |-> <<>>, views_i0 |-> <<>>, done |-> 0, asked |-> FALSE]

\* InteractiveProver::new()
InteractiveProverNew ==
  [public_output |-> <<>>, outputs |-> <<>>, all_commitments |-> <<>>,
   all_views |-> <<>>, key_manager |-> [keys |-> <<>>, next |-> 0]]

NoLab == [stage |-> "none"]

\* InteractiveVerifier::new(), verify not yet called.
InteractiveVerifierNew ==
  [challenge |-> <<>>, all_commitments |-> <<>>, outputs |-> <<>>,
   public_output |-> <<>>, status |-> "none", done |-> 0,
   rebuilt_commitments |-> <<>>, rebuilt_outputs |-> <<>>]

NotTampered == [field |-> "none", repetition |-> 0]

Init ==
  /\ sigma \in Sigmas
  /\ circuit \in Circuits
  /\ witness \in SeqsOf(Words, circuit.nin)
  /\ public_output = Eval(circuit, witness)
  /\ rng \in {RngStream(seed, RngLen) : seed \in 0 .. MaxSeed}
  /\ pc = "start"
  /\ prover = NoProver
  /\ proof = EmptyProof
  /\ tampered = NotTampered
  /\ oracle = {}
  /\ verifier = NoVerifier
  /\ iprover = InteractiveProverNew
  /\ first_message = [outputs |-> <<>>, all_commitments |-> <<>>]
  /\ challenge = <<>>
  /\ again = [rng |-> rng, called |-> FALSE, proof |-> EmptyProof]
  /\ iverifier = InteractiveVerifierNew
  /\ fs_log = <<>>
  /\ lab = NoLab

\* Prover::prove(rng, witness, circuit, public_output)
Prove ==
  /\ pc = "start"
  /\ \E n \in {num_of_repetitions_given_desired_security(sigma)} :
     \E kg \in {KeyManagerNew(n, rng)} :
     \E cp \in {CommitPhase(kg.rng, kg.km, witness, circuit, n)} :
     \E q \in {FsQuery(cp.outputs, public_output, sigma, cp.all_commitments)} :
     \E opening_indices \in OracleAnswers(oracle, q, n) :
     \E op \in {OpenPhase(cp.all_views, cp.all_commitments, cp.key_manager,
                          opening_indices, n)} :
       /\ rng' = cp.rng
       /\ oracle' = oracle \cup {[q |-> q, a |-> opening_indices]}
       /\ fs_log' = fs_log \o FsSteps("prover", cp.outputs, public_output,
                                      sigma, cp.all_commitments, n)
       /\ prover' = [key_manager |-> cp.key_manager,
                     outputs |-> cp.outputs,
                     all_commitments |-> cp.all_commitments,
                     all_views |-> cp.all_views,
                     opening_indices |-> opening_indices,
                     left_views |-> op.all_views,
                     left_commitments |-> op.all_commitments]
       /\ proof' = op.proof
  /\ pc' = "proved"
  /\ UNCHANGED <<lab, sigma, circuit, witness, public_output, tampered, verifier,
                 interactive, again, iverifier>>

\* sample_trits that owes nothing to what was absorbed.
sample_trits_of_nothing(q, n) == SeqsOf(Trits, n)

\* fs_oracle.sample_trits(num_of_repetitions) on an oracle that absorbed q.
sample_trits(q, n) == OracleAnswers(oracle, q, n)

\* Prover::prove called a second time, with the arguments of the first call
\* and an RNG that returns what the first call's RNG returned.
ProveAgain ==
  /\ pc = "proved"
  /\ \E n \in {num_of_repetitions_given_desired_security(sigma)} :
     \E kg \in {KeyManagerNew(n, again.rng)} :
     \E cp \in {CommitPhase(kg.rng, kg.km, witness, circuit, n)} :
     \E q \in {FsQuery(cp.outputs, public_output, sigma, cp.all_commitments)} :
     \E opening_indices \in sample_trits(q, n) :
     \E op \in {OpenPhase(cp.all_views, cp.all_commitments, cp.key_manager,
                          opening_indices, n)} :
       /\ again' = [rng |-> cp.rng, called |-> TRUE, proof |-> op.proof]
       /\ oracle' = oracle \cup {[q |-> q, a |-> opening_indices]}
       /\ fs_log' = fs_log \o FsSteps("prover", cp.outputs, public_output,
                                      sigma, cp.all_commitments, n)
  /\ pc' = "proved_again"
  /\ UNCHANGED <<lab, sigma, circuit, witness, public_output, rng, prover, proof,
                 tampered, verifier, interactive, iverifier>>

\* One field element of the proof is changed between prover and verifier.
Tamper ==
  /\ pc = "proved"
  /\ \E j \in 0 .. (Len(proof.claimed_trits) - 1) :
       \/ \E b \in 0 .. (Len(At(proof.party_inputs, j)) - 1) :
          \E v \in Words \ {At(At(proof.party_inputs, j), b)} :
            /\ proof' = [proof EXCEPT !.party_inputs[j + 1][b + 1] = v]
            /\ tampered' = [field |-> "party_input", repetition |-> j]
       \/ \E b \in 0 .. (Len(At(proof.views, j).input) - 1) :
          \E v \in Words \ {At(At(proof.views, j).input, b)} :
            /\ proof' = [proof EXCEPT !.views[j + 1].input[b + 1] = v]
            /\ tampered' = [field |-> "view_input", repetition |-> j]
       \/ \E m \in 0 .. (Len(At(proof.views, j).messages) - 1) :
          \E v \in Words \ {At(At(proof.views, j).messages, m)} :
            /\ proof' = [proof EXCEPT !.views[j + 1].messages[m + 1] = v]
            /\ tampered' = [field |-> "view_message", repetition |-> j]
       \/ \E i \in {2 * j, 2 * j + 1} :
          \E k \in Keys \ {At(proof.keys, i)} :
            /\ proof' = [proof EXCEPT !.keys[i + 1] = k]
            /\ tampered' = [field |-> "key", repetition |-> j]
       \/ /\ proof' = [proof EXCEPT !.commitments[j + 1].delta = 1]
          /\ tampered' = [field |-> "commitment", repetition |-> j]
       \/ \E t \in (0 .. 3) \ {At(proof.claimed_trits, j)} :
            /\ proof' = [proof EXCEPT !.claimed_trits[j + 1] = t]
            /\ tampered' = [field |-> "trit", repetition |-> j]
  /\ pc' = "tampered"
  /\ UNCHANGED <<lab, sigma, circuit, witness, public_output, rng, prover, oracle,
                 verifier, interactive, extras>>

\* The comparison that compares the first position only.
TritsMatchAtFirst(opening_indices, claimed_trits) ==
  opening_indices = <<>> \/ claimed_trits = <<>>
    \/ opening_indices[1] = claimed_trits[1]

\* opening_indices != proof.claimed_trits, negated: Vec equality.
TritsMatch(opening_indices, claimed_trits) == opening_indices = claimed_trits

\* Verifier::verify(proof, circuit, y). The oracle's answer to the verifier's
\* query is the last of the run and decides only how verify returns.
VerifyWith(y) ==
  \E n \in {num_of_repetitions_given_desired_security(sigma)} :
    IF ~ShapeOk(proof, n)
    THEN /\ verifier' = [NoVerifier EXCEPT !.public_output = y,
                                           !.status = "panic"]
         /\ fs_log' = fs_log
    ELSE
      \E loop \in {VerifyLoop(proof, circuit, y, n)} :
      \E q \in {FsQuery(loop.outputs, y, sigma, loop.all_commitments)} :
      \E opening_indices \in
           (IF loop.status = "ok" THEN OracleAnswers(oracle, q, n) ELSE {<<>>}) :
        /\ fs_log' = IF loop.status = "ok"
                      THEN fs_log \o FsSteps("verifier", loop.outputs, y, sigma,
                                             loop.all_commitments, n)
                      ELSE fs_log
        /\ verifier' =
          [public_output |-> y,
           outputs |-> loop.outputs,
           all_commitments |-> loop.all_commitments,
           views_i0 |-> loop.views_i0,
           done |-> loop.done,
           asked |-> loop.status = "ok",
           status |-> IF loop.status # "ok" THEN loop.status
                      ELSE IF ~TritsMatch(opening_indices, proof.claimed_trits)
                      THEN "FiatShamirOutputsMatchingError"
                      ELSE "Ok"]

\* The verifier is handed the proof as the prover returned it, with any
\* public output of the right length.
Verify ==
  /\ pc = "proved"
  /\ \E y \in SeqsOf(Words, Len(public_output)) : VerifyWith(y)
  /\ pc' = "verified"
  /\ UNCHANGED <<lab, sigma, circuit, witness, public_output, rng, prover, proof,
                 tampered, oracle, interactive, again, iverifier>>

\* The verifier is handed the changed proof with the prover's public output.
VerifyTampered ==
  /\ pc = "tampered"
  /\ VerifyWith(public_output)
  /\ pc' = "verified"
  /\ UNCHANGED <<lab, sigma, circuit, witness, public_output, rng, prover, proof,
                 tampered, oracle, interactive, again, iverifier>>

\* InteractiveProver::round1(rng, witness, circuit, public_output)
Round1 ==
  /\ pc = "start"
  /\ \E n \in {num_of_repetitions_given_desired_security(sigma)} :
     \E kg \in {KeyManagerNew(n, rng)} :
     \E cp \in {CommitPhase(kg.rng, kg.km, witness, circuit, n)} :
       /\ rng' = cp.rng
       /\ iprover' = [key_manager |-> cp.key_manager,
                      all_views |-> cp.all_views,
                      public_output |-> public_output,
                      outputs |-> cp.outputs,
                      all_commitments |-> cp.all_commitments]
       /\ first_message' = [outputs |-> cp.outputs,
                            all_commitments |-> cp.all_commitments]
  /\ pc' = "round1"
  /\ UNCHANGED <<lab, sigma, circuit, witness, public_output, prover, proof,
                 tampered, oracle, verifier, challenge, extras>>

\* InteractiveProver::round3(opening_indices), on a vector of trits.
Round3 ==
  /\ pc = "round1"
  /\ \E opening_indices \in
          SeqsOf(Trits, num_of_repetitions_given_desired_security(sigma)) :
     \E op \in {OpenPhase(iprover.all_views, iprover.all_commitments,
                          iprover.key_manager, opening_indices,
                          Len(opening_indices))} :
       /\ challenge' = opening_indices
       /\ proof' = op.proof
  /\ pc' = "round3"
  /\ UNCHANGED <<lab, sigma, circuit, witness, public_output, rng, prover,
                 tampered, oracle, verifier, iprover, first_message, extras>>

Next ==
  \/ Prove \/ Tamper \/ Verify \/ VerifyTampered \/ Round1 \/ Round3

Spec == Init /\ [][Next]_vars

\* prove called twice on the same arguments.
NextAgain == Prove \/ ProveAgain

SpecAgain == Init /\ [][NextAgain]_vars

\* ------------------------------------------------- the three-round protocol

\* InteractiveVerifier::round2(rng, r, fm): r draws of gen_range(0..3).
Round2 ==
  /\ pc = "round1"
  /\ \E r \in 0 .. MaxRepetitions :
     \E drawn \in SeqsOf(Trits, r) :
       iverifier' = [iverifier EXCEPT !.challenge = drawn,
                                      !.all_commitments = first_message.all_commitments,
                                      !.outputs = first_message.outputs]
  /\ pc' = "round2"
  /\ UNCHANGED <<lab, sigma, circuit, witness, public_output, rng, prover, proof,
                 tampered, oracle, verifier, interactive, again, fs_log>>

\* InteractiveProver::round3 on the challenge round2 returned. A challenge
\* longer than the repetitions stored indexes past all_views and panics.
Round3OnChallenge ==
  /\ pc = "round2"
  /\ challenge' = iverifier.challenge
  /\ IF Len(iverifier.challenge) * 3 > Len(iprover.all_views)
     THEN /\ proof' = EmptyProof
          /\ pc' = "round3_panic"
     ELSE \E op \in {OpenPhase(iprover.all_views, iprover.all_commitments,
                               iprover.key_manager, iverifier.challenge,
                               Len(iverifier.challenge))} :
            /\ proof' = op.proof
            /\ pc' = "opened"
  /\ UNCHANGED <<lab, sigma, circuit, witness, public_output, rng, prover,
                 tampered, oracle, verifier, iprover, first_message, extras>>

\* One field element of the proof is changed between round3 and verify.
InteractiveTamper ==
  /\ pc = "opened"
  /\ \E j \in 0 .. (Len(proof.claimed_trits) - 1) :
       \/ \E b \in 0 .. (Len(At(proof.party_inputs, j)) - 1) :
          \E v \in Words \ {At(At(proof.party_inputs, j), b)} :
            /\ proof' = [proof EXCEPT !.party_inputs[j + 1][b + 1] = v]
            /\ tampered' = [field |-> "party_input", repetition |-> j]
       \/ \E m \in 0 .. (Len(At(proof.views, j).messages) - 1) :
          \E v \in Words \ {At(At(proof.views, j).messages, m)} :
            /\ proof' = [proof EXCEPT !.views[j + 1].messages[m + 1] = v]
            /\ tampered' = [field |-> "view_message", repetition |-> j]
       \/ \E i \in {2 * j, 2 * j + 1} :
          \E k \in Keys \ {At(proof.keys, i)} :
            /\ proof' = [proof EXCEPT !.keys[i + 1] = k]
            /\ tampered' = [field |-> "key", repetition |-> j]
       \/ /\ proof' = [proof EXCEPT !.commitments[j + 1].delta = 1]
          /\ tampered' = [field |-> "commitment", repetition |-> j]
       \/ \E t \in (0 .. 3) \ {At(proof.claimed_trits, j)} :
            /\ proof' = [proof EXCEPT !.claimed_trits[j + 1] = t]
            /\ tampered' = [field |-> "trit", repetition |-> j]
  /\ pc' = "opened_tampered"
  /\ UNCHANGED <<lab, sigma, circuit, witness, public_output, rng, prover, oracle,
                 verifier, interactive, extras>>

\* Lines 303-312 of InteractiveVerifier::verify: the zip of the rebuilt and the
\* stored commitments is mapped through a closure and the adaptor is dropped
\* without being iterated, so the closure never runs and nothing is returned.
UnconsumedCommitmentCheck(rebuilt, stored) == "Ok"

\* The comparison of the output lists by their lengths alone.
OutputsEqualInLength(outputs, stored) == Len(outputs) = Len(stored)

\* outputs != self.outputs, negated: the two flat lists are equal.
OutputsEqual(outputs, stored) == outputs = stored

\* verify with the comparison of the outputs made before the comparison of
\* the challenge.
InteractiveVerifyWithOutputsFirst(y) ==
  \E n \in {num_of_repetitions_given_desired_security(sigma)} :
    IF ~ShapeOk(proof, n)
    THEN iverifier' = [iverifier EXCEPT !.public_output = y, !.status = "panic"]
    ELSE
      \E loop \in {VerifyLoop(proof, circuit, y, n)} :
        iverifier' =
          [iverifier EXCEPT
             !.public_output = y,
             !.done = loop.done,
             !.rebuilt_commitments = loop.all_commitments,
             !.rebuilt_outputs = loop.outputs,
             !.status =
               IF loop.status # "ok" THEN loop.status
               ELSE IF ~OutputsEqual(loop.outputs, iverifier.outputs)
               THEN "VerificationError"
               ELSE IF iverifier.challenge # proof.claimed_trits
               THEN "FiatShamirOutputsMatchingError"
               ELSE "Ok"]

\* InteractiveVerifier::verify(proof, circuit, y)
InteractiveVerifyWith(y) ==
  \E n \in {num_of_repetitions_given_desired_security(sigma)} :
    IF ~ShapeOk(proof, n)
    THEN iverifier' = [iverifier EXCEPT !.public_output = y, !.status = "panic"]
    ELSE
      \E loop \in {VerifyLoop(proof, circuit, y, n)} :
        iverifier' =
          [iverifier EXCEPT
             !.public_output = y,
             !.done = loop.done,
             !.rebuilt_commitments = loop.all_commitments,
             !.rebuilt_outputs = loop.outputs,
             !.status =
               IF loop.status # "ok" THEN loop.status
               ELSE IF iverifier.challenge # proof.claimed_trits
               THEN "FiatShamirOutputsMatchingError"
               ELSE IF UnconsumedCommitmentCheck(loop.all_commitments,
                                                 iverifier.all_commitments) # "Ok"
               THEN "VerificationError"
               ELSE IF ~OutputsEqual(loop.outputs, iverifier.outputs)
               THEN "VerificationError"
               ELSE "Ok"]

\* verify on the proof as round3 returned it, with any public output of the
\* right length.
InteractiveVerify ==
  /\ pc = "opened"
  /\ \E y \in SeqsOf(Words, Len(public_output)) : InteractiveVerifyWith(y)
  /\ pc' = "iverified"
  /\ UNCHANGED <<lab, sigma, circuit, witness, public_output, rng, prover, proof,
                 tampered, oracle, verifier, interactive, again, fs_log>>

\* verify on the changed proof, with the prover's public output.
InteractiveVerifyTampered ==
  /\ pc = "opened_tampered"
  /\ InteractiveVerifyWith(public_output)
  /\ pc' = "iverified"
  /\ UNCHANGED <<lab, sigma, circuit, witness, public_output, rng, prover, proof,
                 tampered, oracle, verifier, interactive, again, fs_log>>

NextInteractive ==
  \/ Round1 \/ Round2 \/ Round3OnChallenge \/ InteractiveTamper
  \/ InteractiveVerify \/ InteractiveVerifyTampered

SpecInteractive == Init /\ [][NextInteractive]_vars

\* ----------------------------------------- verify on proofs of any shape

Last(x) == x[Len(x)]
DropLast(x) == SubSeq(x, 1, Len(x) - 1)

\* The proof reaches the verifier with one of its vectors, or the message
\* list of one of its views, one element shorter or longer.
Reshape ==
  /\ pc = "proved"
  /\ \/ \E f \in {"party_inputs", "commitments", "views", "claimed_trits", "keys"} :
        \/ /\ proof' = [proof EXCEPT ![f] = DropLast(@)]
           /\ tampered' = [field |-> "shorter", repetition |-> 0]
        \/ /\ proof' = [proof EXCEPT ![f] = Append(@, Last(@))]
           /\ tampered' = [field |-> "longer", repetition |-> 0]
     \/ \E j \in 0 .. (Len(proof.views) - 1) :
        \/ /\ At(proof.views, j).messages # <<>>
           /\ proof' = [proof EXCEPT !.views[j + 1].messages = DropLast(@)]
           /\ tampered' = [field |-> "view_shorter", repetition |-> j]
        \/ /\ proof' = [proof EXCEPT !.views[j + 1].messages = Append(@, 0)]
           /\ tampered' = [field |-> "view_longer", repetition |-> j]
  /\ pc' = "reshaped"
  /\ UNCHANGED <<lab, sigma, circuit, witness, public_output, rng, prover, oracle,
                 verifier, interactive, extras>>

\* Verifier::verify(proof, circuit, y), with the oracle keeping the answer it
\* gave the verifier.
VerifyRecording ==
  /\ pc \in {"proved", "reshaped"}
  /\ \E y \in (IF pc = "proved" THEN SeqsOf(Words, Len(public_output))
                                ELSE {public_output}) :
     \E n \in {num_of_repetitions_given_desired_security(sigma)} :
       IF ~ShapeOk(proof, n)
       THEN /\ verifier' = [NoVerifier EXCEPT !.public_output = y,
                                              !.status = "panic"]
            /\ UNCHANGED <<oracle, fs_log>>
       ELSE
         \E loop \in {VerifyLoop(proof, circuit, y, n)} :
         \E q \in {FsQuery(loop.outputs, y, sigma, loop.all_commitments)} :
           IF loop.status # "ok"
           THEN /\ verifier' = [public_output |-> y,
                                outputs |-> loop.outputs,
                                all_commitments |-> loop.all_commitments,
                                views_i0 |-> loop.views_i0,
                                done |-> loop.done,
                                asked |-> FALSE,
                                status |-> loop.status]
                /\ UNCHANGED <<oracle, fs_log>>
           ELSE
             \E opening_indices \in OracleAnswers(oracle, q, n) :
               /\ oracle' = oracle \cup {[q |-> q, a |-> opening_indices]}
               /\ fs_log' = fs_log \o FsSteps("verifier", loop.outputs, y, sigma,
                                              loop.all_commitments, n)
               /\ verifier' =
                    [public_output |-> y,
                     outputs |-> loop.outputs,
                     all_commitments |-> loop.all_commitments,
                     views_i0 |-> loop.views_i0,
                     done |-> loop.done,
                     asked |-> TRUE,
                     status |-> IF ~TritsMatch(opening_indices, proof.claimed_trits)
                                THEN "FiatShamirOutputsMatchingError"
                                ELSE "Ok"]
  /\ pc' = "recorded"
  /\ UNCHANGED <<lab, sigma, circuit, witness, public_output, rng, prover, proof,
                 tampered, interactive, again, iverifier>>

NextVerify == Prove \/ Reshape \/ VerifyRecording

SpecVerify == Init /\ [][NextVerify]_vars

\* prove, then verify on the proof as returned, with any public output.
NextRecorded == Prove \/ VerifyRecording

SpecRecorded == Init /\ [][NextRecorded]_vars

\* ------------------------------------------------- share taken on its own

\* Everything but lab and pc stands still in the two specifications below.
ProtocolIdle ==
  /\ sigma = 1
  /\ circuit = IdentityCircuit
  /\ witness = <<0, 0>>
  /\ public_output = <<0, 0>>
  /\ rng = <<>>
  /\ prover = NoProver
  /\ proof = EmptyProof
  /\ tampered = NotTampered
  /\ oracle = {}
  /\ verifier = NoVerifier
  /\ iprover = InteractiveProverNew
  /\ first_message = [outputs |-> <<>>, all_commitments |-> <<>>]
  /\ challenge = <<>>
  /\ again = [rng |-> <<>>, called |-> FALSE, proof |-> EmptyProof]
  /\ iverifier = InteractiveVerifierNew
  /\ fs_log = <<>>

protocol == <<sigma, circuit, witness, public_output, rng, prover, proof,
              tampered, oracle, verifier, iprover, first_message, challenge,
              again, iverifier, fs_log>>

\* What the RNG may return on one draw.
RawDraws == 0 .. (Pow2(WordBits) - 1)

InitShare ==
  /\ ProtocolIdle
  /\ pc = "share"
  /\ \E n \in 0 .. MaxInputLen :
     \E input \in SeqsOf(Words, n) :
     \E r \in SeqsOf(RawDraws, 2 * n) :
       lab = [stage |-> "input", input |-> input, rng |-> r, by |-> "none",
              shares |-> <<>>, rng_after |-> <<>>]

\* Prover::share(rng, input)
ProverShare ==
  /\ pc = "share"
  /\ lab.stage = "input"
  /\ \E sh \in {share(lab.rng, lab.input)} :
       lab' = [lab EXCEPT !.stage = "shared", !.by = "Prover",
                          !.shares = sh.shares, !.rng_after = sh.rng]
  /\ UNCHANGED <<pc, protocol>>

\* InteractiveProver::share(rng, input)
InteractiveProverShare ==
  /\ pc = "share"
  /\ lab.stage = "input"
  /\ \E sh \in {share(lab.rng, lab.input)} :
       lab' = [lab EXCEPT !.stage = "shared", !.by = "InteractiveProver",
                          !.shares = sh.shares, !.rng_after = sh.rng]
  /\ UNCHANGED <<pc, protocol>>

NextShare == ProverShare \/ InteractiveProverShare

SpecShare == InitShare /\ [][NextShare]_vars

\* -------------------------------------------- one repetition on its own

RepKeys == 0 .. MaxRepKey

InitRep ==
  /\ sigma = 1
  /\ circuit \in Circuits
  /\ witness \in SeqsOf(Words, circuit.nin)
  /\ public_output = Eval(circuit, witness)
  /\ rng \in SeqsOf(RawDraws, 2 * circuit.nin)
  /\ prover = NoProver
  /\ proof = EmptyProof
  /\ tampered = NotTampered
  /\ oracle = {}
  /\ verifier = NoVerifier
  /\ iprover = InteractiveProverNew
  /\ first_message = [outputs |-> <<>>, all_commitments |-> <<>>]
  /\ challenge = <<>>
  /\ again = [rng |-> <<>>, called |-> FALSE, proof |-> EmptyProof]
  /\ iverifier = InteractiveVerifierNew
  /\ fs_log = <<>>
  /\ pc = "repetition"
  /\ \E k0 \in RepKeys, k1 \in RepKeys, k2 \in RepKeys :
       lab = [stage |-> "keys", keys |-> <<k0, k1, k2>>]

\* One pass of the prover's repetition loop: prove_repetition on the three
\* keys, then the three commitments.
RepProve ==
  /\ pc = "repetition"
  /\ lab.stage = "keys"
  /\ \E ro \in {prove_repetition(rng, witness, lab.keys, circuit)} :
       /\ rng' = ro.rng
       /\ lab' = [stage |-> "run", keys |-> lab.keys,
                  shares |-> <<ro.parties[1].view.input,
                               ro.parties[2].view.input,
                               ro.parties[3].view.input>>,
                  party_outputs |-> ro.party_outputs,
                  party_views |-> ro.party_views,
                  commitments |-> <<Commit(lab.keys[1], ro.party_views[1]),
                                    Commit(lab.keys[2], ro.party_views[2]),
                                    Commit(lab.keys[3], ro.party_views[3])>>]
  /\ UNCHANGED <<pc, sigma, circuit, witness, public_output, prover, proof,
                 tampered, oracle, verifier, interactive, extras>>

\* The repetition is opened at party i as prove opens it, and the verifier
\* runs its loop body on what was opened.
RepResimulate ==
  /\ pc = "repetition"
  /\ lab.stage = "run"
  /\ \E i \in Trits :
     \E op \in {OpenPhase(lab.party_views, lab.commitments,
                          [keys |-> lab.keys, next |-> 3], <<i>>, 1)} :
     \E r \in {VerifyRepetition(op.proof, circuit, public_output, 0)} :
       /\ proof' = op.proof
       /\ lab' = [lab EXCEPT !.stage = "resimulated"] @@
                 [party_index |-> i, status |-> r.status, outs |-> r.outs,
                  cms |-> r.cms, view_i0 |-> r.view_i0]
  /\ UNCHANGED <<pc, sigma, circuit, witness, public_output, rng, prover,
                 tampered, oracle, verifier, interactive, extras>>

NextRep == RepProve \/ RepResimulate

SpecRep == InitRep /\ [][NextRep]_vars

\* ------------------------------------------------------------------ claims

Repetitions == num_of_repetitions_given_desired_security(sigma)

\* The Fiat-Shamir input of the prover and the one the verifier rebuilt.
ProverQuery ==
  FsQuery(prover.outputs, public_output, sigma, prover.all_commitments)
VerifierQuery ==
  FsQuery(verifier.outputs, verifier.public_output, sigma, verifier.all_commitments)

\* The verifier ran on the proof as returned, with the prover's public output.
HonestRun ==
  /\ pc = "verified"
  /\ tampered.field = "none"
  /\ verifier.public_output = public_output

\* C1: completeness. The proof prove returns for (w, C, C(w)) makes verify
\* return Ok(()), whatever the RNG and the oracle produced.
C1_Completeness == HonestRun => verifier.status = "Ok"

C1_Witness ==
  /\ HonestRun
  /\ verifier.status = "Ok"
  /\ Repetitions = 2
  /\ num_of_mul_gates(circuit) = 2
  /\ proof.claimed_trits = <<1, 2>>

\* C8: proof shape. Every proof prove returns has R party_inputs, R views,
\* R commitments, R claimed_trits and 2R keys, and so passes the five shape
\* assertions of verify.
C8_ProofShape ==
  (pc \in {"proved", "verified", "round3"} /\ tampered.field = "none") =>
    /\ Len(proof.party_inputs) = Repetitions
    /\ Len(proof.views) = Repetitions
    /\ Len(proof.commitments) = Repetitions
    /\ Len(proof.claimed_trits) = Repetitions
    /\ Len(proof.keys) = 2 * Repetitions
    /\ ShapeOk(proof, Repetitions)
    /\ (pc = "verified" => verifier.status # "panic")

C8_Witness ==
  /\ pc = "verified"
  /\ tampered.field = "none"
  /\ Repetitions = 2
  /\ Len(proof.keys) = 4
  /\ verifier.status = "Ok"

\* The slots of repetition j: the party the trit opens, the next one, and the
\* one that stays closed.
SlotOpened(j, t) == 3 * j + t
SlotNext(j, t) == 3 * j + ((t + 1) % 3)
SlotClosed(j, t) == 3 * j + ((t + 2) % 3)

OpeningPattern(pf, trits, all_views, km, all_commitments) ==
  /\ Len(trits) = Repetitions
  /\ Len(pf.claimed_trits) = Repetitions
  /\ \A j \in 0 .. (Repetitions - 1) :
       LET t == At(trits, j)
       IN  /\ At(pf.party_inputs, j) = At(all_views, SlotOpened(j, t)).input
           /\ At(pf.views, j) = At(all_views, SlotNext(j, t))
           /\ At(pf.keys, 2 * j) = At(km.keys, SlotOpened(j, t))
           /\ At(pf.keys, 2 * j + 1) = At(km.keys, SlotNext(j, t))
           /\ At(pf.commitments, j) = At(all_commitments, SlotClosed(j, t))
           /\ At(pf.claimed_trits, j) = t
           \* slot 3j+i holds the commitment under the key of party i
           /\ \A i \in 0 .. 2 :
                At(all_commitments, 3 * j + i).key = At(km.keys, 3 * j + i)

\* C9: selective opening. At repetition j with trit t the proof built by
\* prove, and by round3, carries the input share of party t, the full view
\* of party t+1, the keys of parties t and t+1, the commitment of party t+2
\* and the trit, all of repetition j (indices modulo 3).
C9_OpeningPattern ==
  /\ pc = "proved" =>
       OpeningPattern(proof, prover.opening_indices, prover.all_views,
                      prover.key_manager, prover.all_commitments)
  /\ pc = "round3" =>
       OpeningPattern(proof, challenge, iprover.all_views,
                      iprover.key_manager, iprover.all_commitments)

KeysDistinct(km, j) ==
  Cardinality({At(km.keys, 3 * j), At(km.keys, 3 * j + 1), At(km.keys, 3 * j + 2)}) = 3

C9_Witness ==
  /\ pc = "round3"
  /\ Repetitions = 2
  /\ challenge = <<2, 1>>
  /\ KeysDistinct(iprover.key_manager, 0)
  /\ num_of_mul_gates(circuit) = 1
  /\ At(proof.views, 1) = At(iprover.all_views, 5)

\* C10: the unopened party stays hidden. At repetition j with trit t, nothing
\* is moved out of the view of party t+2, its key is not among the two keys
\* exported for the repetition, its input share is neither of the two shares
\* exported, and its commitment is the one thing of it that is exported.
C10_ClosedPartyHidden ==
  pc = "proved" =>
    /\ Len(proof.keys) = 2 * Repetitions
    /\ Len(proof.party_inputs) = Repetitions
    /\ Len(proof.views) = Repetitions
    /\ \A j \in 0 .. (Repetitions - 1) :
         LET t  == At(proof.claimed_trits, j)
             a  == SlotOpened(j, t)
             b  == SlotNext(j, t)
             h  == SlotClosed(j, t)
             km == prover.key_manager
             exported_keys == {At(proof.keys, 2 * j), At(proof.keys, 2 * j + 1)}
             exported_shares == {At(proof.party_inputs, j), At(proof.views, j).input}
         IN  /\ At(prover.left_views, h) = At(prover.all_views, h)
             /\ At(prover.left_commitments, h) = DefaultCommitment
             /\ At(prover.left_commitments, a) = At(prover.all_commitments, a)
             /\ At(prover.left_commitments, b) = At(prover.all_commitments, b)
             /\ At(proof.commitments, j) = At(prover.all_commitments, h)
             /\ exported_keys = {At(km.keys, a), At(km.keys, b)}
             /\ (At(km.keys, h) \notin {At(km.keys, a), At(km.keys, b)}
                   => At(km.keys, h) \notin exported_keys)
             /\ exported_shares
                  = {At(prover.all_views, a).input, At(prover.all_views, b).input}
             /\ (At(prover.all_views, h).input
                   \notin {At(prover.all_views, a).input, At(prover.all_views, b).input}
                   => At(prover.all_views, h).input \notin exported_shares)
             /\ At(proof.views, j).messages = At(prover.all_views, b).messages

C10_Witness ==
  /\ pc = "proved"
  /\ Repetitions = 2
  /\ num_of_mul_gates(circuit) = 2
  /\ KeysDistinct(prover.key_manager, 0)
  /\ \E j \in 0 .. 1 :
       LET t == At(proof.claimed_trits, j)
       IN  /\ t = 1
           /\ At(prover.all_views, SlotClosed(j, t)).input
                \notin {At(proof.party_inputs, j), At(proof.views, j).input}
           /\ At(prover.key_manager.keys, SlotClosed(j, t))
                \notin {At(proof.keys, 2 * j), At(proof.keys, 2 * j + 1)}

WrongOutputRun ==
  /\ pc = "verified"
  /\ tampered.field = "none"
  /\ verifier.public_output # public_output

FsOutcomes == {"Ok", "FiatShamirOutputsMatchingError"}

\* C5 as the specification states it: with a wrong public output of the right
\* length, verify of an honest proof reports FiatShamirOutputsMatchingError.
C5_WrongOutputAlwaysRejected ==
  WrongOutputRun => verifier.status = "FiatShamirOutputsMatchingError"

\* C5: soundness on a wrong output. With y' # C(w) of the same length, verify
\* of an honest proof re-simulates every repetition without error, rebuilds the
\* two opened parties' outputs and all commitments as the prover had them,
\* derives a third output that differs from the prover's by y XOR y', and so
\* queries the oracle on an input other than the prover's; it returns
\* FiatShamirOutputsMatchingError unless the oracle's answer to that other
\* input is the claimed trits, and no other error.
C5_WrongOutput ==
  WrongOutputRun =>
    /\ verifier.status \in FsOutcomes
    /\ verifier.done = Repetitions
    /\ verifier.all_commitments = prover.all_commitments
    /\ \A j \in 0 .. (Repetitions - 1) :
         LET t == At(proof.claimed_trits, j)
         IN  /\ At(verifier.outputs, SlotOpened(j, t))
                  = At(prover.outputs, SlotOpened(j, t))
             /\ At(verifier.outputs, SlotNext(j, t))
                  = At(prover.outputs, SlotNext(j, t))
             /\ At(verifier.outputs, SlotClosed(j, t))
                  # At(prover.outputs, SlotClosed(j, t))
             /\ XorVec(At(verifier.outputs, SlotClosed(j, t)),
                       At(prover.outputs, SlotClosed(j, t)))
                  = XorVec(verifier.public_output, public_output)
    /\ VerifierQuery # ProverQuery

C5_Witness ==
  /\ WrongOutputRun
  /\ verifier.status = "FiatShamirOutputsMatchingError"
  /\ Repetitions = 2
  /\ num_of_mul_gates(circuit) = 2
  /\ public_output = <<0, 0>>

TamperedRun == pc = "verified" /\ tampered.field # "none"

\* C6 as the specification states it: verify of a proof with one changed field
\* element never returns Ok.
C6_TamperNeverOk == TamperedRun => verifier.status # "Ok"

\* C6: tamper rejection. After one field element of a valid proof is changed,
\* verify never returns Ok on the oracle input the prover hashed: a changed
\* share, message word, key or commitment changes the commitments the
\* verifier hashes, and a changed trit either leaves the input as it was, and
\* is then rejected, or changes it. Verify returns Ok only if the oracle's
\* answer to the changed input is the claimed trits; a claimed trit that is
\* no trit panics; no other error is reported.
C6_TamperRejection ==
  TamperedRun =>
    /\ verifier.status \in FsOutcomes \cup {"panic"}
    /\ verifier.status = "panic" =>
         (tampered.field = "trit" /\ At(proof.claimed_trits, tampered.repetition) = 3)
    /\ verifier.status = "Ok" => VerifierQuery # ProverQuery
    /\ (verifier.asked /\ VerifierQuery = ProverQuery) =>
         (tampered.field = "trit"
            /\ verifier.status = "FiatShamirOutputsMatchingError")
    /\ tampered.field # "trit" =>
         (verifier.asked /\ verifier.all_commitments # prover.all_commitments)

C6_Witness ==
  /\ TamperedRun
  /\ tampered.field = "view_message"
  /\ tampered.repetition = 1
  /\ verifier.status = "FiatShamirOutputsMatchingError"
  /\ verifier.outputs # prover.outputs

CommitmentTamperedRun ==
  /\ pc = "verified"
  /\ tampered = [field |-> "commitment", repetition |-> 0]

\* C7 as the specification states it: with commitments[0] changed, verify
\* returns exactly FiatShamirOutputsMatchingError.
C7_CommitmentAlwaysFsError ==
  CommitmentTamperedRun => verifier.status = "FiatShamirOutputsMatchingError"

\* C7: tampered closing commitment. With commitments[0] of a valid proof
\* changed, verify re-simulates every repetition without error, rebuilds the
\* prover's outputs, and hashes a commitment list that differs from the
\* prover's in the closed party's slot of repetition 0 and nowhere else; it
\* returns FiatShamirOutputsMatchingError unless the oracle's answer to that
\* changed input is the claimed trits, never another error or a panic.
C7_TamperedCommitment ==
  CommitmentTamperedRun =>
    /\ verifier.done = Repetitions
    /\ verifier.asked
    /\ verifier.status \in FsOutcomes
    /\ verifier.outputs = prover.outputs
    /\ \A s \in 0 .. (3 * Repetitions - 1) :
         (At(verifier.all_commitments, s) # At(prover.all_commitments, s))
           <=> (s = SlotClosed(0, At(proof.claimed_trits, 0)))
    /\ VerifierQuery # ProverQuery

C7_Witness ==
  /\ CommitmentTamperedRun
  /\ Repetitions = 2
  /\ verifier.status = "FiatShamirOutputsMatchingError"
  /\ verifier.done = 2
  /\ At(proof.claimed_trits, 0) = 1

\* C2: share correctness. For every input and every RNG output, share
\* returns three strings of the input's length whose XOR is the input at
\* every position; the empty input gives three empty shares.
C2_ShareCorrect ==
  (pc = "share" /\ lab.stage = "shared") =>
    /\ Len(lab.shares) = 3
    /\ \A k \in 1 .. 3 : Len(lab.shares[k]) = Len(lab.input)
    /\ \A i \in 1 .. Len(lab.input) :
         Xor(Xor(lab.shares[1][i], lab.shares[2][i]), lab.shares[3][i])
           = lab.input[i]
    /\ (lab.input = <<>> => lab.shares = <<<<>>, <<>>, <<>>>>)

C2_Witness ==
  /\ pc = "share"
  /\ lab.stage = "shared"
  /\ lab.by = "InteractiveProver"
  /\ lab.input = <<1, 0>>
  /\ lab.shares = <<<<1, 1>>, <<0, 1>>, <<0, 0>>>>

\* A word of party i's tape and of its input share, i counted modulo 3.
RepTape(i, k) == TapeWord(lab.keys[(i % 3) + 1], k)
RepShare(i, k) == At(lab.shares[(i % 3) + 1], k)

\* z_i of an AND gate on the input wires 0 and 1, read at tape position 0.
FirstAndMessage(i) ==
  Xor(Xor(Xor(Xor(And(RepShare(i, 0), RepShare(i, 1)),
                  And(RepShare(i + 1, 0), RepShare(i, 1))),
              And(RepShare(i, 0), RepShare(i + 1, 1))),
          RepTape(i, 0)),
      RepTape(i + 1, 0))

FirstGateIsAnd == Len(circuit.gates) > 0 /\ circuit.gates[1].op = "and"

\* C3: circuit reconstruction. In one repetition, for every witness and every
\* three tapes, the three output shares of compute_23_decomposition XOR to
\* C(w), the parties' inputs being XOR-shares of w; the message a party
\* records at an AND gate is a_i.b_i + a_{i+1}.b_i + a_i.b_{i+1} + r_i +
\* r_{i+1}, indices modulo 3.
C3_CircuitReconstruction ==
  (pc = "repetition" /\ lab.stage \in {"run", "resimulated"}) =>
    /\ Len(lab.party_outputs) = 3
    /\ \A k \in 1 .. 3 : Len(lab.party_outputs[k]) = party_output_len(circuit)
    /\ XorVec(XorVec(lab.party_outputs[1], lab.party_outputs[2]),
              lab.party_outputs[3]) = Eval(circuit, witness)
    /\ XorVec(XorVec(lab.shares[1], lab.shares[2]), lab.shares[3]) = witness
    /\ \A k \in 1 .. 3 :
         Len(lab.party_views[k].messages) = num_of_mul_gates(circuit)
    /\ FirstGateIsAnd =>
         \A i \in 0 .. 2 : At(lab.party_views[i + 1].messages, 0) = FirstAndMessage(i)

C3_Witness ==
  /\ pc = "repetition"
  /\ lab.stage = "run"
  /\ circuit = AndXorAndCircuit
  /\ witness = <<1, 1>>
  /\ lab.keys = <<1, 2, 3>>
  /\ lab.party_outputs[1] # lab.party_outputs[2]
  /\ lab.party_views[1].messages # lab.party_views[2].messages

\* C4: re-simulation agrees with the three-party run. For every witness, key
\* triple and i, the verifier's pass over the repetition opened at i ends
\* without error, the outputs it has for parties i and i+1 are those of
\* compute_23_decomposition, and the view it rebuilds for party i has the
\* input and the messages of the prover's view of party i.
C4_ResimulationAgrees ==
  (pc = "repetition" /\ lab.stage = "resimulated") =>
    LET i == lab.party_index
    IN  /\ lab.status = "ok"
        /\ At(lab.outs, i) = At(lab.party_outputs, i)
        /\ At(lab.outs, (i + 1) % 3) = At(lab.party_outputs, (i + 1) % 3)
        /\ lab.view_i0.input = At(lab.party_views, i).input
        /\ lab.view_i0.messages = At(lab.party_views, i).messages

C4_Witness ==
  /\ pc = "repetition"
  /\ lab.stage = "resimulated"
  /\ lab.party_index = 2
  /\ circuit = AndXorAndCircuit
  /\ lab.keys = <<3, 0, 1>>
  /\ lab.view_i0.messages = <<1, 0>>
  /\ lab.outs = lab.party_outputs

CommitmentMismatch ==
  \E s \in 1 .. Len(iverifier.rebuilt_commitments) :
    /\ s <= Len(iverifier.all_commitments)
    /\ iverifier.rebuilt_commitments[s] # iverifier.all_commitments[s]

\* C12 as the specification states it: InteractiveVerifier::verify never
\* returns Ok when a commitment it rebuilt differs from the stored one at the
\* same slot.
C12_CommitmentMismatchNeverOk ==
  (pc = "iverified" /\ CommitmentMismatch) => iverifier.status # "Ok"

\* The oracle calls of the log made by one side.
FsLogOf(by) == SelectSeq(fs_log, LAMBDA e : e.by = by)

\* The five vectors of the proof have the lengths R, R, R, R and 2R.
LengthsConsistent ==
  /\ Len(proof.party_inputs) = Repetitions
  /\ Len(proof.commitments) = Repetitions
  /\ Len(proof.views) = Repetitions
  /\ Len(proof.claimed_trits) = Repetitions
  /\ Len(proof.keys) = 2 * Repetitions

\* C13: shape checks come first. When one of the five lengths of the proof is
\* inconsistent with R, verify panics before it builds a party, runs a
\* simulation or drives the oracle, and it does not return Ok.
C13_ShapeChecksFirst ==
  (pc = "recorded" /\ ~LengthsConsistent) =>
    /\ verifier.status = "panic"
    /\ verifier.done = 0
    /\ verifier.outputs = <<>>
    /\ verifier.all_commitments = <<>>
    /\ verifier.views_i0 = <<>>
    /\ ~verifier.asked
    /\ FsLogOf("verifier") = <<>>
    /\ oracle = {[q |-> ProverQuery, a |-> prover.opening_indices]}

C13_Witness ==
  /\ pc = "recorded"
  /\ Repetitions = 2
  /\ Len(proof.keys) = 5
  /\ Len(proof.views) = 2
  /\ verifier.status = "panic"
  /\ num_of_mul_gates(circuit) = 2

\* The trits the oracle gave the verifier, once it was asked.
VerifierTrits == (CHOOSE e \in oracle : e.q = VerifierQuery).a

C14_FirstRepetitionFails ==
  /\ pc = "recorded"
  /\ Repetitions = 2
  /\ tampered = [field |-> "view_shorter", repetition |-> 0]
  /\ verifier.status = "OutputReconstructionError"
  /\ verifier.done = 0

\* The wires of one party, rebuilt from its view: its input share, then one
\* wire per gate, an AND gate's wire being the party's next message.
RECURSIVE WiresFromView(_, _, _)
WiresFromView(c, view, n) ==
  IF n = 0 THEN [wires |-> view.input, read |-> 0]
  ELSE LET st == WiresFromView(c, view, n - 1)
           g  == c.gates[n]
       IN  IF g.op = "and"
           THEN [wires |-> Append(st.wires, At(view.messages, st.read)),
                 read |-> st.read + 1]
           ELSE [wires |-> Append(st.wires, LocalGate(g, st.wires)),
                 read |-> st.read]

OutputsFromView(c, view) ==
  OutputsOf(c, WiresFromView(c, view, Len(c.gates)).wires)

\* What the verifier's loop body computes at repetition j of the proof.
Resimulated(j) ==
  simulate_two_parties(
    circuit,
    PartyNew(At(proof.party_inputs, j), At(proof.keys, 2 * j),
             num_of_mul_gates(circuit)),
    PartyFromTapeAndView(At(proof.views, j),
                         TapeFromKey(At(proof.keys, 2 * j + 1),
                                     num_of_mul_gates(circuit))))

\* Verify has returned on the proof as prove built it, with the prover's y.
HonestRecordedRun ==
  /\ pc = "recorded"
  /\ tampered.field = "none"
  /\ verifier.public_output = public_output

\* C15: canonical slot order. Index 3j+i of the prover's outputs and
\* commitments holds the output and the commitment of party i of repetition
\* j; the verifier puts (o0, cm_i0) at 3j+t, (o1, cm_i1) at 3j+(t+1) mod 3
\* and the derived output with the proof's commitment at 3j+(t+2) mod 3; for
\* an honest proof its two lists equal the prover's.
C15_SlotOrder ==
  /\ pc = "proved" =>
       /\ Len(prover.outputs) = 3 * Repetitions
       /\ Len(prover.all_commitments) = 3 * Repetitions
       /\ \A j \in 0 .. (Repetitions - 1) :
            /\ \A i \in 0 .. 2 :
                 /\ At(prover.outputs, 3 * j + i)
                      = OutputsFromView(circuit, At(prover.all_views, 3 * j + i))
                 /\ At(prover.all_commitments, 3 * j + i)
                      = Commit(At(prover.key_manager.keys, 3 * j + i),
                               At(prover.all_views, 3 * j + i))
            /\ XorVec(XorVec(At(prover.all_views, 3 * j).input,
                             At(prover.all_views, 3 * j + 1).input),
                      At(prover.all_views, 3 * j + 2).input) = witness
  /\ (pc = "recorded" /\ verifier.done = Repetitions) =>
       \A j \in 0 .. (Repetitions - 1) :
         \E t \in {At(proof.claimed_trits, j)} :
         \E sim \in {Resimulated(j)} :
             /\ At(verifier.outputs, SlotOpened(j, t)) = sim.o0
             /\ At(verifier.all_commitments, SlotOpened(j, t))
                  = Commit(At(proof.keys, 2 * j), sim.p.view)
             /\ At(verifier.outputs, SlotNext(j, t)) = sim.o1
             /\ At(verifier.all_commitments, SlotNext(j, t))
                  = Commit(At(proof.keys, 2 * j + 1), At(proof.views, j))
             /\ At(verifier.outputs, SlotClosed(j, t))
                  = XorVec(XorVec(sim.o0, sim.o1), verifier.public_output)
             /\ At(verifier.all_commitments, SlotClosed(j, t))
                  = At(proof.commitments, j)
  /\ HonestRecordedRun =>
       /\ verifier.outputs = prover.outputs
       /\ verifier.all_commitments = prover.all_commitments

C15_Witness ==
  /\ HonestRecordedRun
  /\ Repetitions = 2
  /\ proof.claimed_trits = <<2, 1>>
  /\ num_of_mul_gates(circuit) = 2
  /\ verifier.outputs = prover.outputs
  /\ At(prover.outputs, 3) # At(prover.outputs, 4)
  /\ At(prover.outputs, 4) # At(prover.outputs, 5)

\* ------------------------------------------ derive_third_output on its own

\* Either a run of prove and verify at the largest SIGMA is about to start, or
\* derive_third_output is about to be called on vectors of any length up to
\* MaxInputLen.
InitDerive ==
  \/ /\ Init
     /\ sigma = MaxSigma
  \/ /\ ProtocolIdle
     /\ pc = "derive"
     /\ \E c \in Circuits :
        \E ny \in 0 .. MaxInputLen, n1 \in 0 .. MaxInputLen, n2 \in 0 .. MaxInputLen :
        \E y \in SeqsOf(Words, ny), o1 \in SeqsOf(Words, n1), o2 \in SeqsOf(Words, n2) :
          lab = [stage |-> "args", circuit |-> c, public_output |-> y,
                 o1 |-> o1, o2 |-> o2, panic |-> FALSE, derived_output |-> <<>>]

\* Verifier::derive_third_output(public_output, circuit, (o1, o2))
Derive ==
  /\ pc = "derive"
  /\ lab.stage = "args"
  /\ \E d \in {derive_third_output(lab.public_output, lab.circuit, lab.o1, lab.o2)} :
       lab' = [lab EXCEPT !.stage = "derived", !.panic = d.panic,
                          !.derived_output = d.out]
  /\ UNCHANGED <<pc, protocol>>

NextDerive == Derive \/ Prove \/ Tamper \/ Verify \/ VerifyTampered

SpecDerive == InitDerive /\ [][NextDerive]_vars

\* The three outputs in the slots of repetition j, XORed word by word.
SlotOutputsXor(outputs, repetition, n) ==
  [i \in 1 .. n |->
     Xor(Xor(At(outputs, 3 * repetition)[i], At(outputs, 3 * repetition + 1)[i]),
         At(outputs, 3 * repetition + 2)[i])]

\* C16: derive_third_output returns exactly party_output_len words, word i
\* being o1[i] XOR o2[i] XOR y[i], and aborts when o1 or o2 has another
\* length; and in every verification run, whatever the proof holds, the three
\* outputs the verifier put in the slots of each repetition it completed XOR
\* to the first party_output_len words of the public output it was handed.
C16_ThirdOutput ==
  /\ (pc = "derive" /\ lab.stage = "derived") =>
       LET n == party_output_len(lab.circuit)
       IN  /\ (Len(lab.o1) # n \/ Len(lab.o2) # n) => lab.panic
           /\ ~lab.panic =>
                 /\ Len(lab.derived_output) = n
                 /\ \A i \in 1 .. n :
                      lab.derived_output[i] =
                        Xor(Xor(lab.o1[i], lab.o2[i]), lab.public_output[i])
           /\ (Len(lab.o1) = n /\ Len(lab.o2) = n /\ Len(lab.public_output) >= n)
                 => ~lab.panic
  /\ pc = "verified" =>
       /\ Len(verifier.outputs) = 3 * verifier.done
       /\ \A j \in 0 .. (verifier.done - 1) :
            LET n == party_output_len(circuit)
            IN  /\ \A i \in 0 .. 2 : Len(At(verifier.outputs, 3 * j + i)) = n
                /\ SlotOutputsXor(verifier.outputs, j, n)
                     = SubSeq(verifier.public_output, 1, n)

\* derive_third_output returned the XOR on a circuit with one output word and
\* a public output one word longer.
C16_Witness ==
  /\ pc = "derive"
  /\ lab.stage = "derived"
  /\ ~lab.panic
  /\ party_output_len(lab.circuit) = 1
  /\ Len(lab.public_output) = 2
  /\ lab.o1 = <<1>>
  /\ lab.o2 = <<0>>
  /\ lab.public_output[1] = 1
  /\ lab.derived_output = <<0>>

\* derive_third_output aborted on a first vector that is too short.
C16_Aborted ==
  /\ pc = "derive"
  /\ lab.stage = "derived"
  /\ lab.panic
  /\ Len(lab.o1) < party_output_len(lab.circuit)
  /\ Len(lab.o2) = party_output_len(lab.circuit)

\* A verification of a changed proof with two repetitions completed.
C16_TamperedRunCompleted ==
  /\ pc = "verified"
  /\ tampered.field = "view_message"
  /\ verifier.done = 2

\* ------------------------------------- one repetition, one gate at a time

\* prove_repetition up to the call of compute_23_decomposition: the three
\* parties as init_parties built them, no gate evaluated yet.
LockInit ==
  /\ pc = "repetition"
  /\ lab.stage = "keys"
  /\ \E ip \in {init_parties(rng, witness, lab.keys, num_of_mul_gates(circuit))} :
       /\ rng' = ip.rng
       /\ lab' = [stage |-> "gates", keys |-> lab.keys, rng_before |-> rng,
                  gates_done |-> 0,
                  st |-> Start23(ip.parties[1], ip.parties[2], ip.parties[3])]
  /\ UNCHANGED <<pc, sigma, circuit, witness, public_output, prover, proof,
                 tampered, oracle, verifier, interactive, extras>>

\* The next gate of the circuit, evaluated by the three parties; an AND gate
\* met by a party whose tape is used up ends the run.
LockGate ==
  /\ pc = "repetition"
  /\ lab.stage = "gates"
  /\ lab.gates_done < Len(circuit.gates)
  /\ \E g \in {circuit.gates[lab.gates_done + 1]} :
       IF /\ g.op = "and"
          /\ \E i \in 1 .. 3 :
               lab.st.parties[i].tape_pos >= Len(lab.st.parties[i].tape)
       THEN lab' = [lab EXCEPT !.stage = "tape_exhausted"]
       ELSE \E st \in {Step23(g, lab.st)} :
              lab' = [lab EXCEPT !.st = st, !.gates_done = @ + 1]
  /\ UNCHANGED <<pc, protocol>>

\* compute_23_decomposition returns and prove_repetition takes the views.
LockFinish ==
  /\ pc = "repetition"
  /\ lab.stage = "gates"
  /\ lab.gates_done = Len(circuit.gates)
  /\ lab' = [lab EXCEPT !.stage = "finished"] @@
            [party_outputs |-> <<OutputsOf(circuit, lab.st.wires[1]),
                                 OutputsOf(circuit, lab.st.wires[2]),
                                 OutputsOf(circuit, lab.st.wires[3])>>,
             party_views |-> <<lab.st.parties[1].view, lab.st.parties[2].view,
                               lab.st.parties[3].view>>]
  /\ UNCHANGED <<pc, protocol>>

NextLockstep == LockInit \/ LockGate \/ LockFinish

\* One repetition about to start: any circuit, witness and three keys, and an
\* RNG holding the draws of the two random shares.
InitLockstep ==
  /\ sigma = 1
  /\ circuit \in Circuits
  /\ witness \in SeqsOf(Words, circuit.nin)
  /\ public_output = Eval(circuit, witness)
  /\ rng \in {RngStream(seed, 2 * circuit.nin) : seed \in 0 .. MaxSeed}
  /\ prover = NoProver
  /\ proof = EmptyProof
  /\ tampered = NotTampered
  /\ oracle = {}
  /\ verifier = NoVerifier
  /\ iprover = InteractiveProverNew
  /\ first_message = [outputs |-> <<>>, all_commitments |-> <<>>]
  /\ challenge = <<>>
  /\ again = [rng |-> <<>>, called |-> FALSE, proof |-> EmptyProof]
  /\ iverifier = InteractiveVerifierNew
  /\ fs_log = <<>>
  /\ pc = "repetition"
  /\ \E k0 \in RepKeys, k1 \in RepKeys, k2 \in RepKeys :
       lab = [stage |-> "keys", keys |-> <<k0, k1, k2>>]

SpecLockstep == InitLockstep /\ [][NextLockstep]_vars

\* The AND gates among the first n gates of the circuit.
AndGatesAmong(c, n) == Cardinality({g \in 1 .. n : c.gates[g].op = "and"})

\* C18: during a prover repetition, after the first k AND gates each of the
\* three views holds exactly k messages and each party has consumed exactly k
\* tape words, the three contributions to an AND gate sitting at the same
\* index of the three views; at the end every view holds num_of_mul_gates
\* messages and no tape, of length num_of_mul_gates, was read past its end.
C18_Lockstep ==
  /\ lab.stage # "tape_exhausted"
  /\ (pc = "repetition" /\ lab.stage \in {"gates", "finished"}) =>
       LET k == AndGatesAmong(circuit, lab.gates_done)
       IN  \A i \in 1 .. 3 :
             LET p == lab.st.parties[i]
             IN  /\ Len(p.view.messages) = k
                 /\ p.tape_pos = k
                 /\ Len(p.tape) = num_of_mul_gates(circuit)
                 /\ p.tape_pos <= Len(p.tape)
                 /\ \A g \in 1 .. lab.gates_done :
                      circuit.gates[g].op = "and" =>
                        At(p.view.messages, AndGatesAmong(circuit, g) - 1)
                          = At(lab.st.wires[i], circuit.nin + g - 1)
  /\ (pc = "repetition" /\ lab.stage = "finished") =>
       /\ lab.gates_done = Len(circuit.gates)
       /\ \A i \in 1 .. 3 :
            Len(lab.party_views[i].messages) = num_of_mul_gates(circuit)
       /\ \E ro \in {prove_repetition(lab.rng_before, witness, lab.keys, circuit)} :
            /\ lab.party_views = ro.party_views
            /\ lab.party_outputs = ro.party_outputs

\* A circuit of two AND gates around an XOR gate, all three gates evaluated:
\* two messages in each view, two tape words consumed, views not all alike.
C18_Witness ==
  /\ pc = "repetition"
  /\ lab.stage = "gates"
  /\ circuit = AndXorAndCircuit
  /\ lab.gates_done = 3
  /\ \A i \in 1 .. 3 :
       /\ Len(lab.st.parties[i].view.messages) = 2
       /\ lab.st.parties[i].tape_pos = 2
  /\ lab.st.parties[1].view.messages # lab.st.parties[2].view.messages

\* The state between the first AND gate and the XOR gate after it.
C18_MidRun ==
  /\ pc = "repetition"
  /\ lab.stage = "gates"
  /\ circuit = AndXorAndCircuit
  /\ lab.gates_done = 2
  /\ \A i \in 1 .. 3 : Len(lab.st.parties[i].view.messages) = 1

\* ------------------------------------------- the Fiat-Shamir transcripts

\* The names of the calls in a log, in order.
OpsOf(log) == [i \in 1 .. Len(log) |-> log[i].op]

FsOrder == <<"initialize", "digest_public_data", "digest_prover_message",
             "sample_trits">>

\* What an oracle had absorbed when sample_trits was first called on it: the
\* arguments of the calls logged before that one.
AbsorbedBeforeSampling(log) ==
  LET samples == {i \in 1 .. Len(log) : log[i].op = "sample_trits"}
      k   == IF samples = {} THEN Len(log) + 1
             ELSE CHOOSE i \in samples : \A j \in samples : i <= j
      at(op) == {i \in 1 .. (k - 1) : log[i].op = op}
      arg(op, none) == IF at(op) = {} THEN none
                       ELSE log[CHOOSE i \in at(op) : TRUE].arg
  IN  [seed |-> arg("initialize", <<>>),
       pi |-> arg("digest_public_data", <<>>),
       commitments |-> arg("digest_prover_message", <<>>)]

\* C17: prove and verify drive their oracles with the same ordered calls:
\* initialize on the one seed byte 0, absorb the public input (the 3R party
\* outputs, public_output, hash_len, SIGMA), absorb the 3R commitments in
\* flat order, then sample R trits, never sampling before both absorptions;
\* what each oracle absorbed is the query it answered, so equal outputs,
\* public output, SIGMA and commitments give equal trit vectors.
C17_SameTranscript ==
  /\ \A by \in {"prover", "verifier"} :
       LET log == FsLogOf(by)
       IN  log # <<>> =>
             /\ OpsOf(log) = FsOrder
             /\ log[1].arg = <<0>>
             /\ Len(log[2].arg.outputs) = 3 * Repetitions
             /\ log[2].arg.hash_len = HASH_LEN
             /\ log[2].arg.security_param = sigma
             /\ Len(log[3].arg) = 3 * Repetitions
             /\ log[4].arg = Repetitions
  /\ pc = "proved" =>
       /\ FsLogOf("prover") # <<>>
       /\ AbsorbedBeforeSampling(FsLogOf("prover")) = ProverQuery
       /\ [q |-> ProverQuery, a |-> prover.opening_indices] \in oracle
       /\ Len(prover.opening_indices) = Repetitions
  /\ (pc = "recorded" /\ verifier.asked) =>
       /\ FsLogOf("verifier") # <<>>
       /\ AbsorbedBeforeSampling(FsLogOf("verifier")) = VerifierQuery
       /\ [q |-> VerifierQuery, a |-> VerifierTrits] \in oracle
       /\ Len(VerifierTrits) = Repetitions
       /\ (/\ verifier.outputs = prover.outputs
           /\ verifier.public_output = public_output
           /\ verifier.all_commitments = prover.all_commitments)
            => VerifierTrits = prover.opening_indices
  /\ (pc = "recorded" /\ ~verifier.asked) => FsLogOf("verifier") = <<>>
  /\ \A e1 \in oracle, e2 \in oracle : e1.q = e2.q => e1.a = e2.a

\* Prover and verifier absorbed the same outputs and commitments of two
\* repetitions and sampled the same two trits.
C17_Witness ==
  /\ pc = "recorded"
  /\ verifier.asked
  /\ Repetitions = 2
  /\ OpsOf(FsLogOf("verifier")) = FsOrder
  /\ OpsOf(FsLogOf("prover")) = FsOrder
  /\ AbsorbedBeforeSampling(FsLogOf("verifier"))
       = AbsorbedBeforeSampling(FsLogOf("prover"))
  /\ VerifierTrits = prover.opening_indices
  /\ VerifierTrits = <<1, 2>>

\* The verifier absorbed another public output than the prover and sampled
\* other trits.
C17_OtherInputOtherTrits ==
  /\ pc = "recorded"
  /\ verifier.asked
  /\ FsLogOf("verifier")[2].arg.public_output # FsLogOf("prover")[2].arg.public_output
  /\ FsLogOf("verifier")[3].arg = FsLogOf("prover")[3].arg
  /\ VerifierTrits # prover.opening_indices

\* --------------------------------------- claimed trits that are no trits

\* Values a u8 claimed trit may take beyond the three trits.
NonTrits == {3, 4}

\* The proof with the claimed trit of repetition j set to a value that is no
\* trit and, when cut is a repetition, the last message of that repetition's
\* view dropped.
WithNonTrit(pf, j, t, cut) ==
  LET pt == [pf EXCEPT !.claimed_trits[j + 1] = t]
  IN  IF cut >= 0 /\ At(pf.views, cut).messages # <<>>
      THEN [pt EXCEPT !.views[cut + 1].messages = DropLast(@)]
      ELSE pt

\* The proof of prove reaches the verifier with a claimed trit that is no trit.
BadTrit ==
  /\ pc = "proved"
  /\ \E j \in 0 .. (Len(proof.claimed_trits) - 1) :
     \E t \in NonTrits :
     \E cut \in (-1) .. (Len(proof.claimed_trits) - 1) :
       /\ proof' = WithNonTrit(proof, j, t, cut)
       /\ tampered' = [field |-> "non_trit", repetition |-> j, cut |-> cut]
  /\ pc' = "bad_trit"
  /\ UNCHANGED <<lab, sigma, circuit, witness, public_output, rng, prover, oracle,
                 verifier, interactive, extras>>

\* Verifier::verify on that proof.
VerifyBadTrit ==
  /\ pc = "bad_trit"
  /\ VerifyWith(public_output)
  /\ pc' = "verified"
  /\ UNCHANGED <<lab, sigma, circuit, witness, public_output, rng, prover, proof,
                 tampered, oracle, interactive, again, iverifier>>

\* The proof of round3 reaches the verifier with a claimed trit that is no
\* trit.
InteractiveBadTrit ==
  /\ pc = "opened"
  /\ \E j \in 0 .. (Len(proof.claimed_trits) - 1) :
     \E t \in NonTrits :
     \E cut \in (-1) .. (Len(proof.claimed_trits) - 1) :
       /\ proof' = WithNonTrit(proof, j, t, cut)
       /\ tampered' = [field |-> "non_trit", repetition |-> j, cut |-> cut]
  /\ pc' = "opened_bad_trit"
  /\ UNCHANGED <<lab, sigma, circuit, witness, public_output, rng, prover, oracle,
                 verifier, interactive, extras>>

\* InteractiveVerifier::verify on that proof.
InteractiveVerifyBadTrit ==
  /\ pc = "opened_bad_trit"
  /\ InteractiveVerifyWith(public_output)
  /\ pc' = "iverified"
  /\ UNCHANGED <<lab, sigma, circuit, witness, public_output, rng, prover, proof,
                 tampered, oracle, verifier, interactive, again, fs_log>>

NextTrit ==
  \/ Prove \/ BadTrit \/ VerifyBadTrit
  \/ Round1 \/ Round2 \/ Round3OnChallenge \/ InteractiveBadTrit
  \/ InteractiveVerifyBadTrit

SpecTrit == Init /\ [][NextTrit]_vars

\* The repetitions up to j whose re-simulation returns an error.
FailingUpTo(j) == {i \in 0 .. j : Resimulated(i).err}

\* How a verifier must have ended on a proof of consistent lengths whose
\* claimed trit j is no trit: at the first repetition up to j whose simulation
\* fails, with that error; otherwise at repetition j, with the panic.
EndsAtNonTrit(status, done) ==
  LET j == tampered.repetition
  IN  /\ proof.claimed_trits[j + 1] >= 3
      /\ IF FailingUpTo(j) # {}
         THEN /\ status = "OutputReconstructionError"
              /\ done \in FailingUpTo(j)
              /\ \A i \in FailingUpTo(j) : done <= i
         ELSE /\ status = "panic"
              /\ done = j

\* C19: a claimed trit of 3 or more is never accepted. With the five lengths
\* consistent, Verifier::verify and InteractiveVerifier::verify do not return
\* Ok: they abort at the match of repetition j unless the simulation of an
\* earlier repetition, or of j itself, returned an error first.
C19_NonTritNeverAccepted ==
  /\ (pc = "verified" /\ tampered.field = "non_trit") =>
       /\ verifier.status # "Ok"
       /\ LengthsConsistent =>
            /\ EndsAtNonTrit(verifier.status, verifier.done)
            /\ ~verifier.asked
  /\ (pc = "iverified" /\ tampered.field = "non_trit") =>
       /\ iverifier.status # "Ok"
       /\ LengthsConsistent =>
            EndsAtNonTrit(iverifier.status, iverifier.done)

\* Verifier::verify aborted at the second of two repetitions, the first
\* having passed.
C19_Witness ==
  /\ pc = "verified"
  /\ tampered.field = "non_trit"
  /\ LengthsConsistent
  /\ Repetitions = 2
  /\ tampered.repetition = 1
  /\ At(proof.claimed_trits, 1) = 4
  /\ verifier.status = "panic"
  /\ verifier.done = 1
  /\ Len(verifier.outputs) = 3

\* InteractiveVerifier::verify aborted at the second of two repetitions.
C19_InteractiveAborted ==
  /\ pc = "iverified"
  /\ tampered.field = "non_trit"
  /\ LengthsConsistent
  /\ Repetitions = 2
  /\ tampered.repetition = 1
  /\ iverifier.status = "panic"
  /\ iverifier.done = 1

\* An earlier repetition's simulation failed before the non-trit was met.
C19_EarlierError ==
  /\ pc \in {"verified", "iverified"}
  /\ tampered.field = "non_trit"
  /\ LengthsConsistent
  /\ tampered.repetition = 1
  /\ tampered.cut = 0
  /\ FailingUpTo(1) = {0}
  /\ (pc = "verified" => verifier.status = "OutputReconstructionError")
  /\ (pc = "iverified" => iverifier.status = "OutputReconstructionError")

\* ------------------------------------------- the three rounds, end to end

\* round1, round2 with r = R, round3 on the challenge of round2, and verify on
\* the proof of round3 with the public output of round1.
HonestInteractiveRun ==
  /\ pc = "iverified"
  /\ tampered.field = "none"
  /\ Len(iverifier.challenge) = Repetitions
  /\ challenge = iverifier.challenge
  /\ iprover.public_output = public_output
  /\ iverifier.public_output = public_output

\* C20: interactive completeness. For every witness and circuit, round1 on
\* (w, C, C(w)), round2 with r = R on its first message, round3 on the
\* challenge returned and verify on the proof returned, with public output
\* C(w), ends with Ok.
C20_InteractiveCompleteness ==
  HonestInteractiveRun =>
    /\ public_output = Eval(circuit, witness)
    /\ proof.claimed_trits = iverifier.challenge
    /\ iverifier.done = Repetitions
    /\ iverifier.rebuilt_outputs = first_message.outputs
    /\ iverifier.status = "Ok"

\* Two repetitions of a circuit with two AND gates, opened at parties 1 and 2,
\* accepted.
C20_Witness ==
  /\ HonestInteractiveRun
  /\ Repetitions = 2
  /\ num_of_mul_gates(circuit) = 2
  /\ iverifier.challenge = <<1, 2>>
  /\ Len(proof.views) = 2
  /\ Len(iverifier.rebuilt_outputs) = 6
  /\ iverifier.status = "Ok"

\* ------------------------------------ the challenge the verifier has stored

\* InteractiveVerifier::round2 called once more, after round3 has answered the
\* challenge of the call before: the stored challenge is the new one.
Round2Again ==
  /\ pc = "opened"
  /\ \E r \in 0 .. MaxRepetitions :
     \E drawn \in SeqsOf(Trits, r) :
       iverifier' = [iverifier EXCEPT !.challenge = drawn,
                                      !.all_commitments = first_message.all_commitments,
                                      !.outputs = first_message.outputs]
  /\ pc' = "rechallenged"
  /\ UNCHANGED <<lab, sigma, circuit, witness, public_output, rng, prover, proof,
                 tampered, oracle, verifier, interactive, again, fs_log>>

\* InteractiveVerifier::verify with the challenge the verifier has stored: on
\* the proof round3 gave for that challenge ("opened"), for the challenge of
\* an earlier round2 ("rechallenged"), or for a vector of trits the verifier
\* never drew, round2 not having been called ("round3").
InteractiveVerifyStored ==
  /\ pc \in {"opened", "rechallenged", "round3"}
  /\ \E y \in SeqsOf(Words, Len(public_output)) : InteractiveVerifyWith(y)
  /\ pc' = "iverified"
  /\ UNCHANGED <<lab, sigma, circuit, witness, public_output, rng, prover, proof,
                 tampered, oracle, verifier, interactive, again, fs_log>>

NextChallenge ==
  \/ Round1 \/ Round2 \/ Round3OnChallenge \/ Round3 \/ Round2Again
  \/ InteractiveVerifyStored

SpecChallenge == Init /\ [][NextChallenge]_vars

\* The verifier's loop ran through all repetitions of the proof.
InteractiveLoopCompleted ==
  /\ iverifier.status \in {"Ok", "FiatShamirOutputsMatchingError", "VerificationError"}
  /\ iverifier.done = Repetitions

\* The claimed trits are the stored challenge, position by position.
ChallengeMatches ==
  /\ Len(proof.claimed_trits) = Len(iverifier.challenge)
  /\ \A i \in 1 .. Len(proof.claimed_trits) :
       proof.claimed_trits[i] = iverifier.challenge[i]

\* C21: interactive challenge binding. verify returns Ok only if the claimed
\* trits equal, position by position, the challenge the most recent round2
\* stored; a verifier on which round2 was never called rejects every proof
\* (R > 0); the challenge is compared before the outputs, so a proof that
\* fails both comparisons reports FiatShamirOutputsMatchingError.
C21_ChallengeBinding ==
  pc = "iverified" =>
    /\ Repetitions > 0
    /\ iverifier.status = "Ok" => ChallengeMatches
    /\ iverifier.challenge = <<>> => iverifier.status # "Ok"
    /\ (iverifier.outputs = <<>> /\ iverifier.all_commitments = <<>>) =>
         /\ iverifier.challenge = <<>>
         /\ iverifier.status # "Ok"
         /\ iverifier.done = Repetitions =>
              iverifier.status = "FiatShamirOutputsMatchingError"
    /\ (InteractiveLoopCompleted /\ ~ChallengeMatches) =>
         iverifier.status = "FiatShamirOutputsMatchingError"
    /\ (InteractiveLoopCompleted /\ ChallengeMatches) =>
         iverifier.status \in {"Ok", "VerificationError"}

\* round2 was called again after round3: the proof answers the earlier
\* challenge, differs from the stored one at the second position only, and its
\* outputs differ too; verify reports the challenge.
C21_Witness ==
  /\ pc = "iverified"
  /\ Repetitions = 2
  /\ Len(iverifier.challenge) = 2
  /\ Len(proof.claimed_trits) = 2
  /\ challenge = proof.claimed_trits
  /\ proof.claimed_trits[1] = iverifier.challenge[1]
  /\ proof.claimed_trits[2] # iverifier.challenge[2]
  /\ iverifier.done = 2
  /\ iverifier.rebuilt_outputs # iverifier.outputs
  /\ iverifier.status = "FiatShamirOutputsMatchingError"

\* round2 never called: verify on a proof of round3 rejects.
C21_NeverChallenged ==
  /\ pc = "iverified"
  /\ iverifier.outputs = <<>>
  /\ iverifier.challenge = <<>>
  /\ Len(proof.claimed_trits) = 2
  /\ iverifier.done = 2
  /\ iverifier.status = "FiatShamirOutputsMatchingError"

\* The most recent round2 drew the challenge of the one before again: Ok.
C21_RechallengedAlike ==
  /\ pc = "iverified"
  /\ Repetitions = 2
  /\ iverifier.challenge = challenge
  /\ iverifier.status = "Ok"

\* ------------------------------------------------ the check of the outputs

\* The outputs verify rebuilt differ from the stored ones in some slot, or one
\* list has slots the other has not.
OutputsDifferInSomeSlot ==
  \/ Len(iverifier.rebuilt_outputs) # Len(iverifier.outputs)
  \/ \E slot \in 1 .. Len(iverifier.rebuilt_outputs) :
       iverifier.rebuilt_outputs[slot] # iverifier.outputs[slot]

\* C22: interactive output check. With the claimed trits equal to the stored
\* challenge and the loop run through, verify returns VerificationError if
\* the outputs it rebuilt differ in any slot from those of the first message
\* stored by round2, and Ok only when the two lists are equal.
C22_OutputCheck ==
  pc = "iverified" =>
    /\ iverifier.status = "Ok" =>
         /\ ~OutputsDifferInSomeSlot
         /\ iverifier.rebuilt_outputs = first_message.outputs
    /\ iverifier.status = "VerificationError" =>
         /\ ChallengeMatches
         /\ OutputsDifferInSomeSlot
    /\ (InteractiveLoopCompleted /\ ChallengeMatches) =>
         /\ OutputsDifferInSomeSlot => iverifier.status = "VerificationError"
         /\ ~OutputsDifferInSomeSlot => iverifier.status = "Ok"

\* An input share of the second repetition was changed: the challenge is the
\* stored one, the outputs of the first repetition are the stored ones, one
\* of the second is not, and verify returns VerificationError.
C22_Witness ==
  /\ pc = "iverified"
  /\ Repetitions = 2
  /\ tampered = [field |-> "party_input", repetition |-> 1]
  /\ ChallengeMatches
  /\ iverifier.done = 2
  /\ Len(iverifier.rebuilt_outputs) = 6
  /\ SubSeq(iverifier.rebuilt_outputs, 1, 3) = SubSeq(iverifier.outputs, 1, 3)
  /\ SubSeq(iverifier.rebuilt_outputs, 4, 6) # SubSeq(iverifier.outputs, 4, 6)
  /\ iverifier.status = "VerificationError"

\* --------------------------------------------- round3 called more than once

\* What a proof hands out: for each position j, the key and the input share
\* of the party at flat index i0 (party_inputs[j], keys[2j]) and of the party
\* at flat index i1 (views[j], keys[2j+1]).
ReleasedBy(pf) ==
  UNION {{[slot  |-> OpenI0(j, At(pf.claimed_trits, j)),
           key   |-> At(pf.keys, 2 * j),
           input |-> At(pf.party_inputs, j)],
          [slot  |-> OpenI1(j, At(pf.claimed_trits, j)),
           key   |-> At(pf.keys, 2 * j + 1),
           input |-> At(pf.views, j).input]} :
         j \in 0 .. (Len(pf.claimed_trits) - 1)}

\* InteractiveProver::round3(opening_indices) on any vector of at most R
\* trits, called after round1 or after an earlier round3: &self is not
\* changed by the call, so every call opens the views round1 stored.
Round3Repeated ==
  /\ pc \in {"round1", "round3"}
  /\ \E r \in 0 .. num_of_repetitions_given_desired_security(sigma) :
     \E opening_indices \in SeqsOf(Trits, r) :
     \E op \in {OpenPhase(iprover.all_views, iprover.all_commitments,
                          iprover.key_manager, opening_indices, r)} :
       /\ challenge' = opening_indices
       /\ proof' = op.proof
       /\ lab' = [stage |-> "released",
                  released |-> (IF lab.stage = "released" THEN lab.released ELSE {})
                                 \cup ReleasedBy(op.proof)]
  /\ pc' = "round3"
  /\ UNCHANGED <<sigma, circuit, witness, public_output, rng, prover,
                 tampered, oracle, verifier, iprover, first_message, extras>>

\* The values a byte of the challenge vector may take.
Bytes == 0 .. MaxByte

\* The flat indices i0, i1, i2 the loop of round3 computes at each position.
Round3Indices(opening_indices) ==
  [j \in 1 .. Len(opening_indices) |->
     <<OpenI0(j - 1, opening_indices[j]),
       OpenI1(j - 1, opening_indices[j]),
       OpenI2(j - 1, opening_indices[j])>>]

\* all_views[i0] is the first indexing of a position; i1 and i2 are below
\* 3j+3 <= i0 whenever i0 is past the end.
Round3IndexesPastEnd(opening_indices, stored) ==
  \E j \in 1 .. Len(opening_indices) :
    OpenI0(j - 1, opening_indices[j]) >= stored

\* InteractiveProver::round3(opening_indices) on a vector of any bytes, of
\* any length up to R + 1: indexing past the stored views panics, otherwise
\* the proof is returned.
Round3Bytes ==
  /\ pc = "round1"
  /\ \E r \in 0 .. (num_of_repetitions_given_desired_security(sigma) + 1) :
     \E opening_indices \in SeqsOf(Bytes, r) :
       /\ challenge' = opening_indices
       /\ IF Round3IndexesPastEnd(opening_indices, Len(iprover.all_views))
          THEN /\ proof' = EmptyProof
               /\ lab' = [stage |-> "indices", panic |-> TRUE,
                          indices |-> Round3Indices(opening_indices)]
               /\ pc' = "round3_panic"
          ELSE \E op \in {OpenPhase(iprover.all_views, iprover.all_commitments,
                                    iprover.key_manager, opening_indices, r)} :
                 /\ proof' = op.proof
                 /\ lab' = [stage |-> "indices", panic |-> FALSE,
                            indices |-> Round3Indices(opening_indices)]
                 /\ pc' = "round3_bytes"
  /\ UNCHANGED <<sigma, circuit, witness, public_output, rng, prover,
                 tampered, oracle, verifier, iprover, first_message, extras>>

NextOpenings == Round1 \/ Round3Repeated \/ Round3Bytes

SpecOpenings == Init /\ [][NextOpenings]_vars

\* The parties of repetition j whose key and input share some proof returned
\* so far has handed out.
PartiesReleased(j) ==
  {i \in 0 .. 2 : \E e \in lab.released : e.slot = 3 * j + i}

\* C23 as the specification states it: after round1 and any sequence of
\* round3 calls on vectors of trits, the proofs returned so far hold the keys
\* and input shares of at most two of the three parties of every repetition.
C23_AtMostTwoOpened ==
  (pc = "round3" /\ lab.stage = "released") =>
    \A j \in 0 .. (Repetitions - 1) : Cardinality(PartiesReleased(j)) <= 2

\* One call of round3 hands out exactly two parties of each position it
\* answers, those at the challenge trit and the one after it.
C23_TwoPerCall ==
  (pc = "round3" /\ lab.stage = "released") =>
    \A j \in 0 .. (Len(proof.claimed_trits) - 1) :
      {e.slot : e \in {x \in ReleasedBy(proof) : x.slot \in (3 * j) .. (3 * j + 2)}}
        = {3 * j + At(challenge, j), 3 * j + ((At(challenge, j) + 1) % 3)}

\* The three input shares of repetition 0 have been handed out and XOR to the
\* witness.
C23_WitnessRecovered ==
  /\ pc = "round3"
  /\ lab.stage = "released"
  /\ \E e0 \in lab.released, e1 \in lab.released, e2 \in lab.released :
       /\ e0.slot = 0
       /\ e1.slot = 1
       /\ e2.slot = 2
       /\ e0.input = At(iprover.all_views, 0).input
       /\ e1.input = At(iprover.all_views, 1).input
       /\ e2.input = At(iprover.all_views, 2).input
       /\ XorVec(XorVec(e0.input, e1.input), e2.input) = witness
       /\ e2.key = request_key_i(iprover.key_manager, 2)

\* ------------------------------------------- round3 on any bytes, any length

\* The three indices of position j (from 0) lie in the block of repetition j.
InsideBlock(ix, j) == \A k \in 1 .. 3 : ix[k] \in (3 * j) .. (3 * j + 2)

\* C24 as the specification states it: for every challenge vector passed to
\* round3, of any length and any byte values, the indices i0, i1, i2 of
\* position j lie in the block [3j, 3j+2] and are pairwise distinct, and
\* round3 never indexes past the 3R stored views, keys and commitments.
C24_OpeningsInsideBlock ==
  (pc \in {"round3_bytes", "round3_panic"} /\ lab.stage = "indices") =>
    /\ ~lab.panic
    /\ \A j \in 1 .. Len(lab.indices) :
         /\ InsideBlock(lab.indices[j], j - 1)
         /\ Cardinality({lab.indices[j][1], lab.indices[j][2], lab.indices[j][3]}) = 3

\* What holds of round3 in the code: on a vector of at most R trits the
\* indices stay in their block, are distinct, and nothing panics; the three
\* indices are always pairwise distinct.
C24_TritsInsideBlock ==
  (pc \in {"round3_bytes", "round3_panic"} /\ lab.stage = "indices") =>
    /\ \A j \in 1 .. Len(lab.indices) :
         Cardinality({lab.indices[j][1], lab.indices[j][2], lab.indices[j][3]}) = 3
    /\ (/\ Len(challenge) <= Repetitions
        /\ \A j \in 1 .. Len(challenge) : challenge[j] \in Trits) =>
         /\ ~lab.panic
         /\ \A j \in 1 .. Len(lab.indices) : InsideBlock(lab.indices[j], j - 1)

\* A challenge byte of 3 at position 0 of two: round3 returns a proof whose
\* position 0 holds the input share and key of party 0 of repetition 1.
C24_ForeignShareExported ==
  /\ pc = "round3_bytes"
  /\ Repetitions = 2
  /\ Len(challenge) = 2
  /\ challenge[1] = 3
  /\ At(proof.party_inputs, 0) = At(iprover.all_views, 3).input
  /\ At(proof.party_inputs, 0) # At(iprover.all_views, 0).input
  /\ At(proof.keys, 0) = request_key_i(iprover.key_manager, 3)

\* A challenge of R + 1 trits: round3 indexes past the stored views.
C24_PastTheEnd ==
  /\ pc = "round3_panic"
  /\ Len(challenge) = Repetitions + 1
  /\ \A j \in 1 .. Len(challenge) : challenge[j] \in Trits
  /\ lab.panic

\* ------------------------------------------------------------ generic_parse

\* The byte values the inputs of generic_parse are drawn from; words of four
\* such bytes stay below 2^31.
ParseBytes == (0 .. MaxByte) \cup {127}

\* T::bytes_len() of the word types: 1, 2 and 4 bytes.
BytesLens == {1, 2, 4}

\* A big-endian reading of a chunk.
RECURSIVE from_be_bytes(_)
from_be_bytes(chunk) ==
  IF Len(chunk) = 0 THEN 0
  ELSE chunk[Len(chunk)] + 256 * from_be_bytes(SubSeq(chunk, 1, Len(chunk) - 1))

\* T::from_le_bytes(chunk): the first byte is the least significant.
RECURSIVE from_le_bytes(_)
from_le_bytes(chunk) ==
  IF Len(chunk) = 0 THEN 0
  ELSE chunk[1] + 256 * from_le_bytes(Tail(chunk))

\* bytes.chunks(size): consecutive slices of size bytes, the last one
\* shorter when the length is not a multiple of size.
RECURSIVE chunks(_, _)
chunks(bytes, size) ==
  IF Len(bytes) = 0 THEN <<>>
  ELSE IF Len(bytes) <= size THEN <<bytes>>
  ELSE <<SubSeq(bytes, 1, size)>> \o chunks(SubSeq(bytes, size + 1, Len(bytes)), size)

\* generic_parse::<T>(bytes, number_of_words), T::bytes_len() = bytes_len:
\* the assert_eq! aborts on any other byte length.
generic_parse(bytes, number_of_words, bytes_len) ==
  IF Len(bytes) # number_of_words * bytes_len
  THEN [panic |-> TRUE, words |-> <<>>]
  ELSE LET cs == chunks(bytes, bytes_len)
       IN  [panic |-> FALSE,
            words |-> [i \in 1 .. Len(cs) |-> from_le_bytes(cs[i])]]

InitParse ==
  /\ ProtocolIdle
  /\ pc = "parse"
  /\ \E len \in 0 .. MaxBytesLen, n \in 0 .. MaxWords, b \in BytesLens :
     \E bytes \in SeqsOf(ParseBytes, len) :
       lab = [stage |-> "args", bytes |-> bytes, number_of_words |-> n,
              bytes_len |-> b, panic |-> FALSE, words |-> <<>>]

GenericParse ==
  /\ pc = "parse"
  /\ lab.stage = "args"
  /\ \E g \in {generic_parse(lab.bytes, lab.number_of_words, lab.bytes_len)} :
       lab' = [lab EXCEPT !.stage = "parsed", !.panic = g.panic, !.words = g.words]
  /\ UNCHANGED <<pc, protocol>>

NextParse == GenericParse

SpecParse == InitParse /\ [][NextParse]_vars

Pow256(k) == Pow2(8 * k)

\* C25: generic_parse(bytes, n) for a word type of B bytes returns exactly n
\* words when bytes has exactly n * B bytes, word i having byte k (from the
\* least significant) equal to bytes[i * B + k] and no higher byte (n = 0
\* with empty bytes gives the empty list); for any other byte length it
\* aborts and returns no words.
C25_GenericParse ==
  (pc = "parse" /\ lab.stage = "parsed") =>
    LET n == lab.number_of_words
        B == lab.bytes_len
    IN  IF Len(lab.bytes) = n * B
        THEN /\ ~lab.panic
             /\ Len(lab.words) = n
             /\ \A i \in 0 .. (n - 1) :
                  /\ lab.words[i + 1] \div Pow256(B - 1) \in 0 .. 255
                  /\ \A k \in 0 .. (B - 1) :
                       (lab.words[i + 1] \div Pow256(k)) % 256 = lab.bytes[i * B + k + 1]
        ELSE /\ lab.panic
             /\ lab.words = <<>>

\* Two words of two bytes each, the low byte first.
C25_Witness ==
  /\ pc = "parse"
  /\ lab.stage = "parsed"
  /\ lab.bytes = <<1, 2, 127, 4>>
  /\ lab.number_of_words = 2
  /\ lab.bytes_len = 2
  /\ ~lab.panic
  /\ lab.words = <<513, 1151>>

\* No bytes, no words.
C25_Empty ==
  /\ pc = "parse"
  /\ lab.stage = "parsed"
  /\ lab.bytes = <<>>
  /\ lab.number_of_words = 0
  /\ ~lab.panic
  /\ lab.words = <<>>

\* Three bytes for one word of two bytes: the call aborts.
C25_Aborted ==
  /\ pc = "parse"
  /\ lab.stage = "parsed"
  /\ Len(lab.bytes) = 3
  /\ lab.number_of_words = 1
  /\ lab.bytes_len = 2
  /\ lab.panic

====
